---- MODULE Spec2Model ----
(***************************************************************************)
(* The ride dispatch engine of spinr: the rides and drivers tables of the  *)
(* store, match_driver_to_ride with its atomic driver claim, the request    *)
(* handlers, the WebSocket hub, the scheduled-ride promoter and the fare    *)
(* estimate.                                                               *)
(* The specifications run them over the same tables:                       *)
(*   Spec          creation, matching, cancel, decline and driver cancel   *)
(*                 of backend/server.py, from the empty rides table;       *)
(*   SpecProfile   creation, matching and the driver profile requests;     *)
(*   SpecLifecycle the ride lifecycle requests of backend/server.py, from  *)
(*                 states in which matching leaves the tables;             *)
(*   SpecRoutes    the driver requests of backend/routes/drivers.py, from  *)
(*                 such states;                                            *)
(*   SpecCancel    cancel, decline and re-match of one assigned ride;      *)
(*   SpecTips      the tip and rating requests on a started ride;          *)
(*   SpecHub       the endpoint of backend/routes/websocket.py and its     *)
(*                 connection registry, beside one assigned ride;          *)
(*   SpecPromoter  check_scheduled_rides of backend/features.py beside     *)
(*                 the scheduling requests, FairPromoter with the          *)
(*                 fairness of its task;                                   *)
(*   SpecDispatch  creation and matching beside the promoter's ticks,      *)
(*                 FairDispatch with the fairness of the tasks;            *)
(*   SpecFaults    creation, matching and the driver profile requests      *)
(*                 over a store whose calls can raise;                     *)
(*   SpecFares     fare_estimate of backend/features.py on one request.    *)
(* A handler that awaits the store several times and is raced by the       *)
(* claims runs as a task, one store call per step; the other handlers are  *)
(* one step each.  The store is the one the handlers are written against:  *)
(* update_one reports modified_count, and an update of one row is atomic.  *)
(* hist is a history variable: per driver, the claims won since            *)
(* is_available was last written by anything but a claim (an epoch), and   *)
(* the completions not yet counted in total_rides.                         *)
(***************************************************************************)
EXTENDS Integers, Sequences, FiniteSets, TLC

VARIABLES rides, drivers, tasks, hist, last,
          conns, active_connections, clock, promoter, quote

vars ==
  <<rides, drivers, tasks, hist, last, conns, active_connections, clock, promoter, quote>>

\* The hub's and the promoter's state and the fare-estimate request, which
\* the ride and driver request handlers leave alone.
background == <<conns, active_connections, clock, promoter, quote>>

(* ------------------------------ bounds --------------------------------- *)

\* Rides ever created.
MaxRides == 2
\* Requests in flight at once (each runs a multi-step handler).
NumTasks == 2
\* total_rides is counted up to here.
MaxTotalRides == 2
\* Claim wins are counted up to here within one epoch.
MaxCount == 2
\* Demo drivers that one call of create_demo_drivers writes (three in the
\* source).
NumDemo == 1
\* Calls of create_demo_drivers that are followed; each draws fresh ids.
MaxDemoCalls == 2
\* The largest amount of one tip.
MaxTip == 2
\* Tips are taken while the tips of a ride sum to less than this.
MaxTipped == 3
\* WebSocket connections ever opened.
NumConns == 2
\* The clock is followed up to here, in minutes; later ticks read this time.
MaxClock == 10

(* ----------------------------- universe -------------------------------- *)

Min(a, b) == IF a < b THEN a ELSE b

RideIds == 1..MaxRides
Tasks == 1..NumTasks
Null == "null"
\* A scheduled_time that is not set, and one that fromisoformat raises on;
\* the others are minutes on the clock.
NoTime == -1
Unparsable == -2
Riders == {"ua"}
SeedDrivers == {"d1", "d2"}
\* Driver.id of the demo rows: a fresh uuid per row and call.
DemoIds == <<"e1", "e2", "e3", "e4", "e5", "e6", "e7", "e8", "e9">>
DemoCount == Min(NumDemo * MaxDemoCalls, Len(DemoIds))
\* The ids that call c of create_demo_drivers draws.
DemoGen(c) == {DemoIds[i] : i \in {j \in 1..DemoCount : (c - 1) * NumDemo < j /\ j <= c * NumDemo}}
DemoDrivers == {DemoIds[i] : i \in 1..DemoCount}
DriverIds == SeedDrivers \cup DemoDrivers
DriverUsers == {"ud1", "ud2"}
Otps == {"1111", "2222"}
Algorithms == {"nearest", "rating_based", "round_robin", "combined", "other"}

\* The order in which the store returns driver rows.
DbOrder == <<"d1", "d2">> \o SubSeq(DemoIds, 1, DemoCount)

\* drivers.user_id: the account that owns the driver row (demo drivers: none).
OwnerOf(d) ==
  CASE d = "d1" -> "ud1"
    [] d = "d2" -> "ud2"
    [] OTHER -> Null

\* distance_meters of the locator's answer, per driver (locations are data).
Distance(d) ==
  CASE d = "d1" -> 1
    [] d = "d2" -> 2
    [] OTHER -> 3

\* drivers.rating, times one (4 stands for 4.0).
Rating(d) ==
  CASE d = "d2" -> 3
    [] OTHER -> 5

\* settings.min_driver_rating's default.
MinDriverRating == 4

\* settings.cancellation_fee_admin and cancellation_fee_driver, in cents: the
\* defaults, which apply when no settings row overrides them.
CancellationFeeAdmin == 50
CancellationFeeDriver == 250

ActiveStatuses == {"driver_assigned", "driver_accepted", "driver_arrived", "in_progress"}
Statuses == {"searching", "completed", "cancelled"} \cup ActiveStatuses

(* ------------------------------- rows ---------------------------------- *)

\* A rides row that does not exist yet. Fares are not followed, so
\* driver_earnings counts the tips only; tipped is a history field, the sum of
\* the tips that were accepted for the ride.
NoRide ==
  [status |-> "none", driver_id |-> Null, rider_id |-> Null, pickup_otp |-> Null,
   started |-> FALSE, cancellation_fee |-> <<0, 0>>,
   tip_amount |-> 0, driver_earnings |-> 0, tipped |-> 0,
   scheduled_time |-> NoTime, ride_requested_at |-> 0]

\* Ride(...) as create_ride fills it.
Ride(rider, otp) ==
  [status |-> "searching", driver_id |-> Null, rider_id |-> rider, pickup_otp |-> otp,
   started |-> FALSE, cancellation_fee |-> <<0, 0>>,
   tip_amount |-> 0, driver_earnings |-> 0, tipped |-> 0,
   scheduled_time |-> NoTime, ride_requested_at |-> 0]

\* A drivers row that does not exist.
NoDriver ==
  [exists |-> FALSE, is_available |-> FALSE, is_online |-> FALSE, is_verified |-> FALSE,
   total_rides |-> 0, total_earnings |-> 0]

\* A drivers row after register_driver and the admin's verification: online,
\* available, no rides yet.
Driver ==
  [exists |-> TRUE, is_available |-> TRUE, is_online |-> TRUE, is_verified |-> TRUE,
   total_rides |-> 0, total_earnings |-> 0]

IdleTask ==
  [pc |-> "idle", ride |-> 0, actor |-> Null, cands |-> <<>>,
   sel |-> Null, idx |-> 0, cur |-> 0, doc |-> NoRide, amount |-> 0]

\* last, the latest step: the response of handler op for ride r (0: no ride),
Event(op, r) == [op |-> op, ride |-> r, driver |-> Null, res |-> "ok"]

\* ... a conditional claim of driver d for ride r and whether a row was modified,
ClaimEvent(r, d, won) ==
  [op |-> "claim", ride |-> r, driver |-> d, res |-> IF won THEN "won" ELSE "lost"]

\* ... the response to a request that raised an HTTPException,
RejectEvent == [op |-> "none", ride |-> 0, driver |-> Null, res |-> "rejected"]

\* ... a store call of a handler that has not returned yet.
StepEvent == [op |-> "none", ride |-> 0, driver |-> Null, res |-> "step"]

NoEvent == [op |-> "init", ride |-> 0, driver |-> Null, res |-> "none"]

NoHist == [wins |-> 0, owed |-> 0]

(* ------------------------- the hub's universe -------------------------- *)

Conns == 1..NumConns
\* The accounts of the users table.
Users == Riders \cup DriverUsers
\* client_type and client_id of the URL /ws/{client_type}/{client_id}.
ClientTypes == {"rider", "driver"}
ClientIds == Users

\* A token names a user; valid tells whether its signature and expiry hold.
Tokens == [user : Users, valid : BOOLEAN]
\* The token of a message that carries none.
NoToken == [user |-> Null, valid |-> FALSE]

\* A decoding that does not verify: the user the token names, whatever its
\* signature.
DecodeToken(tok) == tok.user

\* verify_id_token, then verify_jwt_token: the user of a token that verifies,
\* nothing when both raise.
VerifyToken(tok) == IF tok.valid THEN tok.user ELSE Null

\* connection_key = f"{client_type}_{user['id']}"
ConnectionKey(client_type, user_id) == <<client_type, user_id>>
Keys == ClientTypes \X Users
NoKey == <<Null, Null>>

\* The first message a client sends: an auth message with or without a token,
\* or any other message.
FirstMessages ==
  [type : {"auth"}, token : Tokens \cup {NoToken}]
    \cup [type : {"chat_message"}, token : {NoToken}]
NoMessage == [type |-> "none", token |-> NoToken]

\* lat and lng of a location message; 0 is the falsy one.
Coordinates == {0, 1}
\* sender of a chat_message, as the client wrote it.
Senders == {"driver", "rider", Null}

\* A connection that was never opened; first is the first message it sent.
NoConn ==
  [pc |-> "none", client_type |-> Null, client_id |-> Null, user |-> Null,
   key |-> NoKey, first |-> NoMessage]

\* What send_personal_message(message, key) delivers: to the websocket under
\* key in registry reg, if there is one.
Delivery(reg, key, type) ==
  IF reg[key] # 0 THEN {[key |-> key, conn |-> reg[key], type |-> type]} ELSE {}

\* last after the hub took message op of connection c about ride r or driver
\* d and sent the deliveries of sent; res tells whether it acted on it.
HubEvent(op, c, r, d, res, sent) ==
  [op |-> op, ride |-> r, driver |-> d, res |-> res, conn |-> c, sent |-> sent]

(* ----------------------- the promoter's universe ----------------------- *)

\* timedelta(minutes=5) of the window, asyncio.sleep(60) between ticks, and
\* the 15 minutes schedule_ride asks for, in minutes.
Lookahead == 5
TickInterval == 1
MinLead == 15

\* scheduled_time of the rides that were scheduled before the first tick.
EarlierTimes == {3, 10, Unparsable}
\* How far ahead schedule_ride is asked to book.
Leads == {3, MinLead}

\* A window without the lookahead: due when the time has come.
DueNow(sched_time, now) == sched_time <= now

\* sched_time <= window, with window = now + timedelta(minutes=5)
Due(sched_time, now) == sched_time <= now + Lookahead

\* to_list(50) of the promoter's query.
ListCap == 50

\* check_scheduled_rides as the lifespan starts it, about to run its first
\* tick. promoted, attempted and notified are history fields: the rides the
\* tick has set to searching, called send_push_notification for, and got True
\* from it; error tells that the tick ended in its except clause.
IdlePromoter ==
  [pc |-> "find", now |-> 0, scheduled |-> <<>>, idx |-> 0,
   promoted |-> {}, attempted |-> {}, notified |-> {}, error |-> FALSE]

\* last after a step of the promoter about ride r (0: none).
PromoterEvent(r, res) ==
  [op |-> "check_scheduled_rides", ride |-> r, driver |-> Null, res |-> res]

\* A scheduled ride as schedule_ride writes it.
ScheduledRide(rider, sched_time, now) ==
  [NoRide EXCEPT !.status = "scheduled", !.rider_id = rider,
                 !.scheduled_time = sched_time, !.ride_requested_at = now]

(* ------------------------- the fare calculator ------------------------- *)

\* Amounts that the code rounds to two decimals are in cents; the subtotal,
\* which it carries unrounded, is in tenths of a cent. Distances are in
\* hundredths of a kilometre, tax rates and percentage fees in percent.

Max(a, b) == IF a > b THEN a ELSE b

\* ride_time_hour: dt.utcnow().hour.
Hours == 0..23

\* round(n / d) to the nearest whole, a tie to the even one: round(x, 2) of a
\* decimal amount. (On the floats of the code an amount that reads as a tie
\* falls to either side.)
RoundDiv(n, d) ==
  LET q == n \div d
      r == n % d
  IN IF 2 * r < d THEN q
     ELSE IF 2 * r > d THEN q + 1
     ELSE IF q % 2 = 0 THEN q ELSE q + 1

\* The rate table fare_estimate falls back on when the vehicle type has no
\* fare_configs row, and a row with other rates.
DefaultFareConfig ==
  [base_fare |-> 3500, per_km_rate |-> 15, per_minute_rate |-> 250,
   booking_fee |-> 2000, minimum_fare |-> 8000]
FareConfigs ==
  {DefaultFareConfig,
   [base_fare |-> 4000, per_km_rate |-> 20, per_minute_rate |-> 300,
    booking_fee |-> 2500, minimum_fare |-> 10000]}

\* subtotal = max(base_fare + distance_fare + time_fare + booking_fee,
\* minimum_fare)
Subtotal(cfg, distance, duration) ==
  Max(cfg.base_fare + distance * cfg.per_km_rate + duration * cfg.per_minute_rate
        + cfg.booking_fee,
      cfg.minimum_fare)

\* The active service area whose polygon holds the pickup, if one does
\* (matched), with its airport flag and fee and its tax configuration.
NoArea ==
  [matched |-> FALSE, is_airport |-> FALSE, airport_fee |-> 0,
   hst_enabled |-> FALSE, hst_rate |-> 0, gst_enabled |-> FALSE, gst_rate |-> 0,
   pst_enabled |-> FALSE, pst_rate |-> 0]
Areas ==
  {[matched |-> TRUE, is_airport |-> ap, airport_fee |-> af,
    hst_enabled |-> hst, hst_rate |-> IF hst THEN 13 ELSE 0,
    gst_enabled |-> gst, gst_rate |-> 5,
    pst_enabled |-> pst, pst_rate |-> IF pst THEN 7 ELSE 0] :
     ap \in BOOLEAN, af \in {0, 500}, hst \in BOOLEAN, gst \in BOOLEAN, pst \in BOOLEAN}

\* An area with the default tax configuration: GST of 5% alone.
GstArea ==
  [matched |-> TRUE, is_airport |-> FALSE, airport_fee |-> 0,
   hst_enabled |-> FALSE, hst_rate |-> 0, gst_enabled |-> TRUE, gst_rate |-> 5,
   pst_enabled |-> FALSE, pst_rate |-> 0]

\* An area_fees row: amount is in cents for flat, cents per kilometre for
\* per_km, percent for percentage.
AreaFee(type, mode, amt, start_h, end_h) == <<type, mode, amt, start_h, end_h>>
fee_type(fee) == fee[1]
calc_mode(fee) == fee[2]
amount(fee) == fee[3]
start_hour(fee) == fee[4]
end_hour(fee) == fee[5]

\* The active area_fees rows of the matched area, as lists.
FeeLists ==
  {<<>>,
   <<AreaFee("airport", "flat", 500, 0, 0)>>,
   <<AreaFee("custom", "percentage", 10, 0, 0)>>,
   <<AreaFee("custom", "per_km", 50, 0, 0)>>,
   <<AreaFee("airport", "flat", 500, 0, 0), AreaFee("toll", "other", 41, 0, 0)>>}

\* A window that does not wrap: from start_hour up to end_hour.
DayWindow(hour, start_h, end_h) == start_h <= hour /\ hour < end_h

\* The night condition: the window crosses midnight when start_h > end_h.
NightWindow(hour, start_h, end_h) ==
  IF start_h > end_h
  THEN hour >= start_h \/ hour < end_h
  ELSE start_h <= hour /\ hour < end_h

\* The conditions a fee row passes before it is calculated.
FeeApplies(fee, hour, in_airport) ==
  /\ fee_type(fee) = "night" => NightWindow(hour, start_hour(fee), end_hour(fee))
  /\ fee_type(fee) = "airport" => in_airport

\* fee_value by calc_mode, rounded to cents.
FeeValue(fee, distance, subtotal) ==
  CASE calc_mode(fee) = "flat" -> amount(fee)
    [] calc_mode(fee) = "per_km" -> RoundDiv(amount(fee) * distance, 100)
    [] calc_mode(fee) = "percentage" -> RoundDiv(amount(fee) * subtotal, 1000)
    [] OTHER -> amount(fee)

\* The rows of fees that apply, by their place in the list.
AppliedFees(fees, hour, in_airport) ==
  {i \in DOMAIN fees : FeeApplies(fees[i], hour, in_airport)}

RECURSIVE SumFees(_, _, _, _)
SumFees(fees, applied, distance, subtotal) ==
  IF applied = {} THEN 0
  ELSE LET i == CHOOSE j \in applied : TRUE
       IN FeeValue(fees[i], distance, subtotal)
            + SumFees(fees, applied \ {i}, distance, subtotal)

\* round(taxable_amount * (rate / 100.0), 2), taxable in tenths of a cent.
TaxOf(taxable, rate) == RoundDiv(taxable * rate, 1000)

\* calculate_all_fees: nothing without a matched area; else the fees that
\* apply, and the tax on subtotal + fees_total, HST alone or GST and PST.
calculate_all_fees(area, fees, hour, in_airport, distance, subtotal) ==
  IF ~area.matched
  THEN [applied |-> {}, fees_total |-> 0, tax_amount |-> 0]
  ELSE LET applied == AppliedFees(fees, hour, in_airport)
           fees_total == SumFees(fees, applied, distance, subtotal)
           taxable_amount == subtotal + 10 * fees_total
           tax_total ==
             IF area.hst_enabled THEN TaxOf(taxable_amount, area.hst_rate)
             ELSE (IF area.gst_enabled THEN TaxOf(taxable_amount, area.gst_rate) ELSE 0)
                  + (IF area.pst_enabled THEN TaxOf(taxable_amount, area.pst_rate) ELSE 0)
       IN [applied |-> applied, fees_total |-> fees_total, tax_amount |-> tax_total]

\* A fare-estimate request on its way to the handler: the rates cfg of the
\* vehicle type, the trip, the area that holds the pickup and its fee rows,
\* the hour, and whether the pickup or the dropoff is in an airport zone.
Request(cfg, distance, duration, area, fees, hour, in_airport) ==
  [pc |-> "request", cfg |-> cfg, distance |-> distance, duration |-> duration,
   area |-> area, fees |-> fees, hour |-> hour, in_airport |-> in_airport,
   exact |-> 0, subtotal |-> 0, applied |-> {}, area_fees_total |-> 0,
   tax_amount |-> 0, grand_total |-> 0]

\* No estimate was asked for.
NoQuote == [Request(DefaultFareConfig, 0, 0, NoArea, <<>>, 0, FALSE) EXCEPT !.pc = "none"]

\* The response of fare_estimate to request q, beside the request; exact is
\* the unrounded subtotal.
Quote(q) ==
  LET subtotal == Subtotal(q.cfg, q.distance, q.duration)
      fees_result ==
        calculate_all_fees(q.area, q.fees, q.hour, q.in_airport, q.distance, subtotal)
  IN [q EXCEPT !.pc = "response",
               !.exact = subtotal,
               !.subtotal = RoundDiv(subtotal, 10),
               !.applied = fees_result.applied,
               !.area_fees_total = fees_result.fees_total,
               !.tax_amount = fees_result.tax_amount,
               !.grand_total =
                 RoundDiv(subtotal + 10 * fees_result.fees_total
                            + 10 * fees_result.tax_amount, 10)]

\* Trips of 8 km, of 410 m and of 30 m in 10 minutes.
Trips == {<<800, 10>>, <<41, 10>>, <<3, 10>>}

\* Requests at every hour in an area with one night fee, for every window.
NightRequests ==
  {Request(DefaultFareConfig, 800, 10, GstArea,
           <<AreaFee("night", "flat", 200, start_h, end_h)>>, hour, FALSE) :
     hour \in Hours, start_h \in Hours, end_h \in Hours}

\* Requests over the areas, their fee rows and the trips; a pickup in an
\* airport area is in an airport zone.
AreaRequests ==
  {q \in {Request(cfg, trip[1], trip[2], area, fees, 12, in_airport) :
            cfg \in FareConfigs, trip \in Trips, area \in Areas \cup {NoArea},
            fees \in FeeLists, in_airport \in BOOLEAN} :
     q.area.is_airport => q.in_airport}

\* No connection, an empty registry, and the promoter about to tick at
\* time 0.
InitQuiet ==
  /\ conns = [c \in Conns |-> NoConn]
  /\ active_connections = [k \in Keys |-> 0]
  /\ clock = 0
  /\ promoter = IdlePromoter

InitBackground ==
  /\ InitQuiet
  /\ quote = NoQuote


(* ------------------------------ lookups -------------------------------- *)

\* db.drivers.find_one({'user_id': current_user['id']})
DriverOf(u) ==
  IF \E d \in DriverIds : drivers[d].exists /\ OwnerOf(d) = u
  THEN CHOOSE d \in DriverIds : drivers[d].exists /\ OwnerOf(d) = u
  ELSE Null

\* db.rides.find_one({'id': ride_id, 'driver_id': driver['id']})
RideOfDriver(r, d) == d # Null /\ rides[r].status # "none" /\ rides[r].driver_id = d

\* db.rides.find_one({'id': ride_id, 'rider_id': current_user['id']})
RideOfRider(r, u) == rides[r].status # "none" /\ rides[r].rider_id = u

\* The rides bound to driver d that are under way.
ActiveRidesOf(d) == {r \in RideIds : rides[r].driver_id = d /\ rides[r].status \in ActiveStatuses}

(* --------------------------- the store's writes ------------------------ *)

\* set_driver_available(driver_id, available) with no increment: one update of
\* is_available, whatever else the handler's $set named.
SetDriverAvailable(d, available) ==
  IF drivers[d].exists
  THEN [drivers EXCEPT ![d].is_available = available]
  ELSE drivers

\* An update that leaves out the is_available = true condition: it modifies
\* the row whatever is_available is.
UnconditionalModified(d) == drivers[d].exists

\* claim_driver_atomic: UPDATE drivers SET is_available = false
\* WHERE id = d AND is_available = true; the rows it changed.
ClaimModified(d) == drivers[d].exists /\ drivers[d].is_available

ClaimDriverAtomic(d) ==
  IF ClaimModified(d) THEN [drivers EXCEPT ![d].is_available = FALSE] ELSE drivers

\* A claim attempt on d, counted in d's epoch: the wins since is_available was
\* last written by anything but a claim.
HistClaim(d, won) ==
  [hist EXCEPT ![d].wins = IF won THEN Min(@ + 1, MaxCount) ELSE @]

\* Any other write of is_available to d starts a new epoch.
HistReset(d) == [hist EXCEPT ![d].wins = 0]

(* ------------------------- candidate selection ------------------------- *)

\* The find_nearby_drivers RPC, then the vehicle-type filter (one vehicle type).
CandidateLocator(drv) == {d \in DriverIds : drv[d].exists /\ drv[d].is_online /\ drv[d].is_available}

\* The rows of a set of drivers in the store's order.
InDbOrder(S) == SelectSeq(DbOrder, LAMBDA d : d \in S)

RECURSIVE InsertBy(_, _, _)
\* list.sort's step: x goes after every element whose key is not greater.
InsertBy(x, s, key) ==
  IF s = <<>> THEN <<x>>
  ELSE IF key[x] < key[Head(s)] THEN <<x>> \o s
  ELSE <<Head(s)>> \o InsertBy(x, Tail(s), key)

RECURSIVE SortBy(_, _)
\* A stable ascending sort of s by key[x].
SortBy(s, key) ==
  IF s = <<>> THEN <<>>
  ELSE InsertBy(s[Len(s)], SortBy(SubSeq(s, 1, Len(s) - 1), key), key)

\* key=lambda x: x[1]
ByDistance == [d \in DriverIds |-> Distance(d)]

\* key=lambda x: x[0].get('rating', 5.0), reverse=True
ByRatingDesc == [d \in DriverIds |-> 0 - Rating(d)]

\* drivers_with_distance after the algorithm's filter and sort.
PreferenceList(alg, S) ==
  LET rated == IF alg \in {"rating_based", "combined"}
               THEN {d \in S : Rating(d) >= MinDriverRating} ELSE S
      rows == InDbOrder(rated)
  IN  CASE alg \in {"nearest", "combined"} -> SortBy(rows, ByDistance)
        [] alg = "rating_based" -> SortBy(rows, ByRatingDesc)
        [] OTHER -> rows

\* The most recently created ride with a driver: its driver, or Null.
LastRideDriver ==
  LET with == {r \in RideIds : rides[r].status # "none" /\ rides[r].driver_id # Null}
  IN  IF with = {} THEN Null
      ELSE rides[CHOOSE r \in with : \A q \in with : q <= r].driver_id

\* The index of d in list s, 0 when absent.
IndexOf(d, s) ==
  IF \E i \in 1..Len(s) : s[i] = d
  THEN CHOOSE i \in 1..Len(s) : s[i] = d /\ \A j \in 1..(i - 1) : s[j] # d
  ELSE 0

\* selected_driver: Null when no branch of the algorithm chain applies.
SelectedDriver(alg, list) ==
  CASE alg \in {"nearest", "combined", "rating_based"} -> list[1]
    [] alg = "round_robin" ->
         IF LastRideDriver = Null THEN list[1]
         ELSE list[(IndexOf(LastRideDriver, list) % Len(list)) + 1]
    [] OTHER -> Null

(* --------------------------------- Init -------------------------------- *)

Init ==
  /\ rides = [r \in RideIds |-> NoRide]
  /\ drivers = [d \in DriverIds |-> IF d \in SeedDrivers THEN Driver ELSE NoDriver]
  /\ tasks = [t \in Tasks |-> IdleTask]
  /\ hist = [d \in DriverIds |-> NoHist]
  /\ last = NoEvent
  /\ InitBackground

(* ------------------------ match_driver_to_ride ------------------------- *)

\* The task after the candidates are read from drivers table drv and one is
\* selected: on to the claim, or back to idle when match_driver_to_ride returns
\* with nothing to claim.
AfterSelect(t, alg, drv) ==
  LET list == PreferenceList(alg, CandidateLocator(drv))
      sel == IF list = <<>> THEN Null ELSE SelectedDriver(alg, list)
  IN  IF sel = Null THEN IdleTask
      ELSE [tasks[t] EXCEPT !.pc = "m_claim", !.cands = list, !.sel = sel]

\* The event of a selection: the handler returns when there is nothing to claim.
SelectEvent(t, alg, drv) ==
  IF AfterSelect(t, alg, drv).pc = "idle"
  THEN Event("match_driver_to_ride", tasks[t].ride)
  ELSE StepEvent

\* The ride and the settings are read, the locator is asked, the algorithm
\* (settings.driver_matching_algorithm, any value) orders the candidates.
Match_Locate(t) ==
  /\ tasks[t].pc = "m_locate"
  /\ \E alg \in Algorithms :
       IF rides[tasks[t].ride].status = "none"
       THEN /\ tasks' = [tasks EXCEPT ![t] = IdleTask]
            /\ UNCHANGED background
            /\ last' = Event("match_driver_to_ride", tasks[t].ride)
       ELSE IF CandidateLocator(drivers) = {}
       THEN /\ tasks' = [tasks EXCEPT ![t].pc = "m_demo"]
            /\ UNCHANGED background
            /\ last' = StepEvent
       ELSE /\ tasks' = [tasks EXCEPT ![t] = AfterSelect(t, alg, drivers)]
            /\ UNCHANGED background
            /\ last' = SelectEvent(t, alg, drivers)
  /\ UNCHANGED <<rides, drivers, hist>>

\* The calls of create_demo_drivers so far: the demo rows in the table are
\* those of the latest call.
DemoCalls ==
  IF \A d \in DemoDrivers : ~drivers[d].exists THEN 0
  ELSE CHOOSE c \in 1..MaxDemoCalls : \E d \in DemoGen(c) : drivers[d].exists

\* create_demo_drivers: an upsert by phone of Driver(...) per demo driver. The
\* row of that phone, if there is one, takes every field of the new Driver,
\* its fresh id included: online, available, not verified (total_rides, a
\* random number in the source, counts from 0 here).
DemoRows ==
  [d \in DriverIds |->
     IF d \in DemoGen(DemoCalls + 1)
     THEN [exists |-> TRUE, is_available |-> TRUE, is_online |-> TRUE,
           is_verified |-> FALSE, total_rides |-> 0, total_earnings |-> 0]
     ELSE IF d \in DemoDrivers THEN NoDriver
     ELSE drivers[d]]

\* ... then the locator again.
Match_Demo(t) ==
  /\ tasks[t].pc = "m_demo"
  /\ DemoCalls < MaxDemoCalls
  /\ drivers' = DemoRows
  /\ hist' = [d \in DriverIds |-> IF drivers'[d] # drivers[d] THEN NoHist ELSE hist[d]]
  /\ \E alg \in Algorithms :
       /\ tasks' = [tasks EXCEPT ![t] = AfterSelect(t, alg, DemoRows)]
       /\ UNCHANGED background
       /\ last' = SelectEvent(t, alg, DemoRows)
  /\ UNCHANGED rides

\* The first claim: the conditional update of the selected driver.
Match_Claim(t) ==
  /\ tasks[t].pc = "m_claim"
  /\ LET d == tasks[t].sel
         won == ClaimModified(d)
     IN  /\ drivers' = ClaimDriverAtomic(d)
         /\ hist' = HistClaim(d, won)
         /\ tasks' = [tasks EXCEPT ![t] =
               IF won THEN [@ EXCEPT !.pc = "m_assign", !.cands = <<>>]
               ELSE [@ EXCEPT !.pc = "m_loop", !.idx = 1]]
         /\ UNCHANGED background
         /\ last' = ClaimEvent(tasks[t].ride, d, won)
  /\ UNCHANGED rides

\* The candidates from the last to the first.
LastCandidate(t) == tasks[t].cands[Len(tasks[t].cands) + 1 - tasks[t].idx]

\* for d, _ in drivers_with_distance: the candidate of this turn of the loop.
LoopCandidate(t) == tasks[t].cands[tasks[t].idx]

\* claim_result.modified_count == 0: the candidates in list order, one
\* conditional update each, until one is claimed or the list ends and
\* match_driver_to_ride returns.
Match_Loop(t) ==
  /\ tasks[t].pc = "m_loop"
  /\ LET d == LoopCandidate(t)
         won == ClaimModified(d)
         ended == ~won /\ tasks[t].idx = Len(tasks[t].cands)
     IN  /\ drivers' = ClaimDriverAtomic(d)
         /\ hist' = HistClaim(d, won)
         /\ tasks' = [tasks EXCEPT ![t] =
               IF won THEN [@ EXCEPT !.pc = "m_assign", !.cands = <<>>, !.sel = d, !.idx = 0]
               ELSE IF ended THEN IdleTask
               ELSE [@ EXCEPT !.idx = @ + 1]]
         /\ UNCHANGED background
         /\ last' = IF ended THEN Event("match_driver_to_ride", tasks[t].ride)
                    ELSE ClaimEvent(tasks[t].ride, d, won)
  /\ UNCHANGED rides

\* The ride is bound to the claimed driver, whatever its status is by now.
Match_Assign(t) ==
  /\ tasks[t].pc = "m_assign"
  /\ rides' = [rides EXCEPT ![tasks[t].ride] =
                 IF @.status = "none" THEN @
                 ELSE [@ EXCEPT !.driver_id = tasks[t].sel, !.status = "driver_assigned"]]
  /\ tasks' = [tasks EXCEPT ![t] = IdleTask]
  /\ UNCHANGED background
  /\ last' = Event("match_driver_to_ride", tasks[t].ride)
  /\ UNCHANGED <<drivers, hist>>

(* ----------------------------- create_ride ----------------------------- *)

\* generate_otp(): four random digits; the draw is fixed per ride here, and the
\* requests that supply an OTP range over Otps.
generate_otp == [r \in RideIds |-> IF r % 2 = 1 THEN "1111" ELSE "2222"]

\* The slot a new multi-step request runs in: the first idle one.
FreeTask ==
  IF \A t \in Tasks : tasks[t].pc # "idle" THEN 0
  ELSE CHOOSE t \in Tasks : tasks[t].pc = "idle" /\ \A q \in 1..(t - 1) : tasks[q].pc # "idle"

\* The id of the next ride row.
NewRideId == CHOOSE r \in RideIds : rides[r].status = "none" /\ \A q \in 1..(r - 1) : rides[q].status # "none"

\* POST /rides: the ride is inserted as searching with a fresh pickup_otp,
\* then matched.
create_ride(t, u) ==
  /\ t = FreeTask
  /\ \E r \in RideIds : rides[r].status = "none"
  /\ rides' = [rides EXCEPT ![NewRideId] = Ride(u, generate_otp[NewRideId])]
  /\ tasks' = [tasks EXCEPT ![t] = [IdleTask EXCEPT !.pc = "m_locate", !.ride = NewRideId]]
  /\ UNCHANGED background
  /\ last' = StepEvent
  /\ UNCHANGED <<drivers, hist>>

(* ------------------------- rider requests ------------------------------ *)

\* An HTTPException raised before any write: nothing changes.
Reject(op, r, actor) ==
  /\ UNCHANGED background
  /\ last' = RejectEvent
  /\ UNCHANGED <<rides, drivers, tasks, hist>>

\* A release of driver d by a handler: is_available := true.
Release(d) ==
  /\ drivers' = SetDriverAvailable(d, TRUE)
  /\ hist' = IF drivers[d].exists THEN HistReset(d) ELSE hist

\* The ride's cancellation_fee_admin and cancellation_fee_driver after the
\* rider's cancel: the configured split when the driver had arrived.
CancellationFee(r) ==
  IF rides[r].status = "driver_arrived"
  THEN <<CancellationFeeAdmin, CancellationFeeDriver>>
  ELSE rides[r].cancellation_fee

\* POST /rides/{ride_id}/cancel, by the rider.
cancel_ride(u, r) ==
  IF RideOfRider(r, u) /\ rides[r].status \notin {"completed", "cancelled", "in_progress"}
  THEN /\ IF rides[r].driver_id # Null
          THEN Release(rides[r].driver_id)
          ELSE UNCHANGED <<drivers, hist>>
       /\ rides' = [rides EXCEPT ![r].status = "cancelled",
                                 ![r].cancellation_fee = CancellationFee(r)]
       /\ UNCHANGED background
       /\ last' = Event("cancel_ride", r)
       /\ UNCHANGED tasks
  ELSE Reject("cancel_ride", r, u)

\* POST /rides/{ride_id}/simulate-arrival, by the rider.
simulate_driver_arrival(u, r) ==
  IF RideOfRider(r, u)
  THEN /\ rides' = [rides EXCEPT ![r].status = "driver_arrived"]
       /\ UNCHANGED background
       /\ last' = Event("simulate_driver_arrival", r)
       /\ UNCHANGED <<drivers, tasks, hist>>
  ELSE Reject("simulate_driver_arrival", r, u)

\* users.role = 'driver': set by register_driver.
IsDriverRole(u) == DriverOf(u) # Null

\* POST /rides/{ride_id}/start: a driver-role caller is looked up by
\* driver_id = user id, which no ride carries; any other caller as the rider.
start_ride(u, r) ==
  IF ~IsDriverRole(u) /\ RideOfRider(r, u) /\ rides[r].status = "driver_arrived"
  THEN /\ rides' = [rides EXCEPT ![r].status = "in_progress", ![r].started = TRUE]
       /\ UNCHANGED background
       /\ last' = Event("start_ride", r)
       /\ UNCHANGED <<drivers, tasks, hist>>
  ELSE Reject("start_ride", r, u)

\* POST /rides/{ride_id}/complete: 403 for a rider, and a driver-role caller
\* is looked up by driver_id = user id, which no ride carries.
complete_ride(u, r) == Reject("complete_ride", r, u)

(* ------------------------ driver profile requests ---------------------- *)

\* PUT /drivers/me: a change of a critical vehicle field puts is_available =
\* False into the $set, and the store then writes is_available alone.
update_driver_profile(u, critical) ==
  IF DriverOf(u) # Null
  THEN /\ IF critical
          THEN /\ drivers' = SetDriverAvailable(DriverOf(u), FALSE)
               /\ hist' = HistReset(DriverOf(u))
          ELSE UNCHANGED <<drivers, hist>>
       /\ UNCHANGED background
       /\ last' = Event("update_driver_profile", 0)
       /\ UNCHANGED <<rides, tasks>>
  ELSE Reject("update_driver_profile", 0, u)

\* POST /drivers/documents: the verification reset names is_available = False.
upload_driver_document(u) ==
  IF DriverOf(u) # Null
  THEN /\ drivers' = SetDriverAvailable(DriverOf(u), FALSE)
       /\ hist' = HistReset(DriverOf(u))
       /\ UNCHANGED background
       /\ last' = Event("upload_driver_document", 0)
       /\ UNCHANGED <<rides, tasks>>
  ELSE Reject("upload_driver_document", 0, u)

\* POST /drivers/status.
update_driver_status(u, is_online) ==
  IF DriverOf(u) # Null /\ (is_online => drivers[DriverOf(u)].is_verified)
  THEN /\ drivers' = [drivers EXCEPT ![DriverOf(u)].is_online = is_online]
       /\ UNCHANGED background
       /\ last' = Event("update_driver_status", 0)
       /\ UNCHANGED <<rides, tasks, hist>>
  ELSE Reject("update_driver_status", 0, u)

(* ---------------- driver ride requests of server.py -------------------- *)

\* POST /drivers/rides/{ride_id}/accept.
driver_accept_ride(u, r) ==
  IF RideOfDriver(r, DriverOf(u)) /\ rides[r].status = "driver_assigned"
  THEN /\ rides' = [rides EXCEPT ![r].status = "driver_accepted"]
       /\ UNCHANGED background
       /\ last' = Event("driver_accept_ride", r)
       /\ UNCHANGED <<drivers, tasks, hist>>
  ELSE Reject("driver_accept_ride", r, u)

\* POST /drivers/rides/{ride_id}/arrive.
driver_arrive_at_pickup(u, r) ==
  IF RideOfDriver(r, DriverOf(u)) /\ rides[r].status \in {"driver_assigned", "driver_accepted"}
  THEN /\ rides' = [rides EXCEPT ![r].status = "driver_arrived"]
       /\ UNCHANGED background
       /\ last' = Event("driver_arrive_at_pickup", r)
       /\ UNCHANGED <<drivers, tasks, hist>>
  ELSE Reject("driver_arrive_at_pickup", r, u)

\* POST /drivers/rides/{ride_id}/verify-otp.
driver_verify_otp(u, r, otp) ==
  IF /\ RideOfDriver(r, DriverOf(u))
     /\ rides[r].status = "driver_arrived"
     /\ rides[r].pickup_otp = otp
  THEN /\ rides' = [rides EXCEPT ![r].status = "in_progress", ![r].started = TRUE]
       /\ UNCHANGED background
       /\ last' = Event("driver_verify_otp", r)
       /\ UNCHANGED <<drivers, tasks, hist>>
  ELSE Reject("driver_verify_otp", r, u)

\* POST /drivers/rides/{ride_id}/start.
driver_start_ride(u, r) ==
  IF RideOfDriver(r, DriverOf(u)) /\ rides[r].status = "driver_arrived"
  THEN /\ rides' = [rides EXCEPT ![r].status = "in_progress", ![r].started = TRUE]
       /\ UNCHANGED background
       /\ last' = Event("driver_start_ride", r)
       /\ UNCHANGED <<drivers, tasks, hist>>
  ELSE Reject("driver_start_ride", r, u)

\* A write of status completed to ride r by driver d's request: a completion
\* owed to d's total_rides when the ride was not completed already.
HistCompleted(d, r) ==
  IF rides[r].status # "completed" THEN [hist EXCEPT ![d].owed = @ + 1] ELSE hist

\* A task's first step: the handler's lookups and checks passed.
Begin(t, r, d, pc) ==
  /\ tasks' = [tasks EXCEPT ![t] = [IdleTask EXCEPT !.pc = pc, !.ride = r, !.actor = d]]
  /\ UNCHANGED background
  /\ last' = StepEvent
  /\ UNCHANGED <<rides, drivers, hist>>

\* POST /drivers/rides/{ride_id}/complete: the lookups and the status check.
driver_complete_ride(t, u, r) ==
  /\ t = FreeTask
  /\ IF RideOfDriver(r, DriverOf(u)) /\ rides[r].status = "in_progress"
     THEN /\ drivers[DriverOf(u)].total_rides < MaxTotalRides
          /\ Begin(t, r, DriverOf(u), "c_ride")
     ELSE Reject("driver_complete_ride", r, u)

\* ... the ride is written completed,
Complete_Ride(t) ==
  /\ tasks[t].pc = "c_ride"
  /\ rides' = [rides EXCEPT ![tasks[t].ride].status = "completed"]
  /\ hist' = HistCompleted(tasks[t].actor, tasks[t].ride)
  /\ tasks' = [tasks EXCEPT ![t].pc = "c_read"]
  /\ UNCHANGED background
  /\ last' = StepEvent
  /\ UNCHANGED drivers

\* ... set_driver_available reads total_rides,
Complete_Read(t) ==
  /\ tasks[t].pc = "c_read"
  /\ tasks' = [tasks EXCEPT ![t].pc = "c_write", ![t].cur = drivers[tasks[t].actor].total_rides]
  /\ UNCHANGED background
  /\ last' = StepEvent
  /\ UNCHANGED <<rides, drivers, hist>>

\* ... and writes is_available = true with total_rides = the value read + 1.
Complete_Write(t) ==
  /\ tasks[t].pc = "c_write"
  /\ drivers' = [drivers EXCEPT ![tasks[t].actor].is_available = TRUE,
                                ![tasks[t].actor].total_rides = tasks[t].cur + 1]
  /\ hist' = [HistReset(tasks[t].actor) EXCEPT
                ![tasks[t].actor].owed = @ - (tasks[t].cur + 1 - drivers[tasks[t].actor].total_rides)]
  /\ tasks' = [tasks EXCEPT ![t] = IdleTask]
  /\ UNCHANGED background
  /\ last' = Event("driver_complete_ride", tasks[t].ride)
  /\ UNCHANGED rides

\* POST /drivers/rides/{ride_id}/decline: the lookups and the status check.
driver_decline_ride(t, u, r) ==
  /\ t = FreeTask
  /\ IF RideOfDriver(r, DriverOf(u)) /\ rides[r].status = "driver_assigned"
     THEN Begin(t, r, DriverOf(u), "dec_release")
     ELSE Reject("driver_decline_ride", r, u)

\* ... the driver is released,
Decline_Release(t) ==
  /\ tasks[t].pc = "dec_release"
  /\ Release(tasks[t].actor)
  /\ tasks' = [tasks EXCEPT ![t].pc = "dec_reset"]
  /\ UNCHANGED background
  /\ last' = StepEvent
  /\ UNCHANGED rides

\* ... the ride goes back to searching, and is matched again.
Decline_Reset(t) ==
  /\ tasks[t].pc = "dec_reset"
  /\ rides' = [rides EXCEPT ![tasks[t].ride].driver_id = Null, ![tasks[t].ride].status = "searching"]
  /\ tasks' = [tasks EXCEPT ![t].pc = "m_locate", ![t].actor = Null]
  /\ UNCHANGED background
  /\ last' = StepEvent
  /\ UNCHANGED <<drivers, hist>>

\* POST /drivers/rides/{ride_id}/cancel: the lookups and the status checks.
driver_cancel_ride(t, u, r) ==
  /\ t = FreeTask
  /\ IF RideOfDriver(r, DriverOf(u)) /\ rides[r].status \notin {"completed", "cancelled", "in_progress"}
     THEN Begin(t, r, DriverOf(u), "dc_release")
     ELSE Reject("driver_cancel_ride", r, u)

\* ... the driver is released,
DriverCancel_Release(t) ==
  /\ tasks[t].pc = "dc_release"
  /\ Release(tasks[t].actor)
  /\ tasks' = [tasks EXCEPT ![t].pc = "dc_cancel"]
  /\ UNCHANGED background
  /\ last' = StepEvent
  /\ UNCHANGED rides

\* ... the ride is written cancelled,
DriverCancel_Cancel(t) ==
  /\ tasks[t].pc = "dc_cancel"
  /\ rides' = [rides EXCEPT ![tasks[t].ride].status = "cancelled"]
  /\ tasks' = [tasks EXCEPT ![t].pc = "dc_reset"]
  /\ UNCHANGED background
  /\ last' = StepEvent
  /\ UNCHANGED <<drivers, hist>>

\* ... then written back to searching without a driver, and matched again.
DriverCancel_Reset(t) ==
  /\ tasks[t].pc = "dc_reset"
  /\ rides' = [rides EXCEPT ![tasks[t].ride].driver_id = Null, ![tasks[t].ride].status = "searching"]
  /\ tasks' = [tasks EXCEPT ![t].pc = "m_locate", ![t].actor = Null]
  /\ UNCHANGED background
  /\ last' = StepEvent
  /\ UNCHANGED <<drivers, hist>>

(* -------------- driver ride requests of routes/drivers.py -------------- *)

\* The rides rows that update_one({'id': r, 'driver_id': d}, ...) changes.
Bound(r, d) == rides[r].status # "none" /\ rides[r].driver_id = d

\* POST /drivers/rides/{ride_id}/accept: the bound driver, or any driver while
\* the ride is searching.
routes_accept_ride(u, r) ==
  IF /\ DriverOf(u) # Null
     /\ rides[r].status # "none"
     /\ (rides[r].driver_id = DriverOf(u) \/ rides[r].status = "searching")
  THEN /\ rides' = [rides EXCEPT ![r].status = "driver_accepted", ![r].driver_id = DriverOf(u)]
       /\ UNCHANGED background
       /\ last' = Event("routes_accept_ride", r)
       /\ UNCHANGED <<drivers, tasks, hist>>
  ELSE Reject("routes_accept_ride", r, u)

\* POST /drivers/rides/{ride_id}/decline: success whether or not a row matched.
routes_decline_ride(u, r) ==
  IF DriverOf(u) # Null
  THEN /\ rides' = IF Bound(r, DriverOf(u))
                   THEN [rides EXCEPT ![r].driver_id = Null, ![r].status = "searching"]
                   ELSE rides
       /\ UNCHANGED background
       /\ last' = Event("routes_decline_ride", r)
       /\ UNCHANGED <<drivers, tasks, hist>>
  ELSE Reject("routes_decline_ride", r, u)

\* POST /drivers/rides/{ride_id}/arrive.
routes_arrive_at_pickup(u, r) ==
  IF DriverOf(u) # Null
  THEN /\ rides' = IF Bound(r, DriverOf(u))
                   THEN [rides EXCEPT ![r].status = "driver_arrived"]
                   ELSE rides
       /\ UNCHANGED background
       /\ last' = Event("routes_arrive_at_pickup", r)
       /\ UNCHANGED <<drivers, tasks, hist>>
  ELSE Reject("routes_arrive_at_pickup", r, u)

\* POST /drivers/rides/{ride_id}/verify-otp.
routes_verify_pickup_otp(u, r, otp) ==
  IF RideOfDriver(r, DriverOf(u)) /\ rides[r].pickup_otp = otp
  THEN /\ rides' = [rides EXCEPT ![r].status = "in_progress", ![r].started = TRUE]
       /\ UNCHANGED background
       /\ last' = Event("routes_verify_pickup_otp", r)
       /\ UNCHANGED <<drivers, tasks, hist>>
  ELSE Reject("routes_verify_pickup_otp", r, u)

\* POST /drivers/rides/{ride_id}/start.
routes_start_ride(u, r) ==
  IF DriverOf(u) # Null
  THEN /\ rides' = IF Bound(r, DriverOf(u))
                   THEN [rides EXCEPT ![r].status = "in_progress", ![r].started = TRUE]
                   ELSE rides
       /\ UNCHANGED background
       /\ last' = Event("routes_start_ride", r)
       /\ UNCHANGED <<drivers, tasks, hist>>
  ELSE Reject("routes_start_ride", r, u)

\* POST /drivers/rides/{ride_id}/complete: the driver's counters are written
\* whether or not a ride row matched.
routes_complete_ride(u, r) ==
  IF DriverOf(u) # Null
  THEN /\ drivers[DriverOf(u)].total_rides < MaxTotalRides
       /\ rides' = IF Bound(r, DriverOf(u))
                   THEN [rides EXCEPT ![r].status = "completed"]
                   ELSE rides
       /\ drivers' = [drivers EXCEPT ![DriverOf(u)].is_available = TRUE,
                                     ![DriverOf(u)].total_rides = @ + 1]
       /\ hist' = [HistReset(DriverOf(u)) EXCEPT
                     ![DriverOf(u)].owed = IF Bound(r, DriverOf(u)) /\ rides[r].status # "completed"
                                           THEN @ ELSE @ - 1]
       /\ UNCHANGED background
       /\ last' = Event("routes_complete_ride", r)
       /\ UNCHANGED tasks
  ELSE Reject("routes_complete_ride", r, u)

\* POST /drivers/rides/{ride_id}/cancel: the driver is released whether or not
\* a ride row matched.
routes_cancel_ride(u, r) ==
  IF DriverOf(u) # Null
  THEN /\ rides' = IF Bound(r, DriverOf(u))
                   THEN [rides EXCEPT ![r].status = "cancelled"]
                   ELSE rides
       /\ Release(DriverOf(u))
       /\ UNCHANGED background
       /\ last' = Event("routes_cancel_ride", r)
       /\ UNCHANGED tasks
  ELSE Reject("routes_cancel_ride", r, u)

(* -------------------------------- tips --------------------------------- *)

TipAmounts == 0..MaxTip
\* RideRatingRequest.rating as sent: out of range, or a rating.
Ratings == {0, 5}

\* A tip request's first step: the ride document is read and the checks have
\* passed.
BeginTip(t, r, u, pc, a) ==
  /\ rides[r].tipped < MaxTipped
  /\ tasks' = [tasks EXCEPT ![t] =
                 [IdleTask EXCEPT !.pc = pc, !.ride = r, !.actor = u,
                                  !.doc = rides[r], !.amount = a]]
  /\ UNCHANGED background
  /\ last' = StepEvent
  /\ UNCHANGED <<rides, drivers, hist>>

\* The checks of both add_tip handlers: a positive amount, the caller's own
\* ride, completed.
TipAllowed(u, r, a) ==
  a > 0 /\ rides[r].status # "none" /\ rides[r].rider_id = u /\ rides[r].status = "completed"

\* POST /rides/{ride_id}/tip of server.py: the checks,
add_tip(t, u, r, a) ==
  /\ t = FreeTask
  /\ IF TipAllowed(u, r, a)
     THEN BeginTip(t, r, u, "tip_write", a)
     ELSE Reject("add_tip", r, u)

\* ... tip_amount is written as the value read plus the amount,
AddTip_Write(t) ==
  /\ tasks[t].pc = "tip_write"
  /\ rides' = [rides EXCEPT ![tasks[t].ride].tip_amount = tasks[t].doc.tip_amount + tasks[t].amount,
                            ![tasks[t].ride].tipped = @ + tasks[t].amount]
  /\ tasks' = [tasks EXCEPT ![t] =
                 IF tasks[t].doc.driver_id # Null
                 THEN [@ EXCEPT !.pc = "tip_driver_read"]
                 ELSE IdleTask]
  /\ UNCHANGED background
  /\ last' = IF tasks[t].doc.driver_id # Null THEN StepEvent ELSE Event("add_tip", tasks[t].ride)
  /\ UNCHANGED <<drivers, hist>>

\* ... the driver of the ride is read,
AddTip_DriverRead(t) ==
  /\ tasks[t].pc = "tip_driver_read"
  /\ LET d == tasks[t].doc.driver_id
     IN  IF drivers[d].exists
         THEN /\ tasks' = [tasks EXCEPT ![t].pc = "tip_driver_write", ![t].cur = drivers[d].total_earnings]
              /\ UNCHANGED background
              /\ last' = StepEvent
         ELSE /\ tasks' = [tasks EXCEPT ![t] = IdleTask]
              /\ UNCHANGED background
              /\ last' = Event("add_tip", tasks[t].ride)
  /\ UNCHANGED <<rides, drivers, hist>>

\* ... and the driver's total_earnings is written as the value read plus the
\* amount.
AddTip_DriverWrite(t) ==
  /\ tasks[t].pc = "tip_driver_write"
  /\ LET d == tasks[t].doc.driver_id
     IN  drivers' = IF drivers[d].exists
                    THEN [drivers EXCEPT ![d].total_earnings = tasks[t].cur + tasks[t].amount]
                    ELSE drivers
  /\ tasks' = [tasks EXCEPT ![t] = IdleTask]
  /\ UNCHANGED background
  /\ last' = Event("add_tip", tasks[t].ride)
  /\ UNCHANGED <<rides, hist>>

\* POST /{ride_id}/tip of routes/rides.py: the checks,
routes_add_tip(t, u, r, a) ==
  /\ t = FreeTask
  /\ IF TipAllowed(u, r, a)
     THEN BeginTip(t, r, u, "rtip_write", a)
     ELSE Reject("routes_add_tip", r, u)

\* ... tip_amount and driver_earnings are written as the values read plus the
\* amount.
RoutesAddTip_Write(t) ==
  /\ tasks[t].pc = "rtip_write"
  /\ rides' = [rides EXCEPT ![tasks[t].ride].tip_amount = tasks[t].doc.tip_amount + tasks[t].amount,
                            ![tasks[t].ride].driver_earnings = tasks[t].doc.driver_earnings + tasks[t].amount,
                            ![tasks[t].ride].tipped = @ + tasks[t].amount]
  /\ tasks' = [tasks EXCEPT ![t] = IdleTask]
  /\ UNCHANGED background
  /\ last' = Event("routes_add_tip", tasks[t].ride)
  /\ UNCHANGED <<drivers, hist>>

\* POST /rides/{ride_id}/rate: the caller's own ride, completed, a rating from
\* 1 to 5; the tip may be zero.
rate_ride(t, u, r, rating, a) ==
  /\ t = FreeTask
  /\ IF RideOfRider(r, u) /\ rides[r].status = "completed" /\ rating >= 1 /\ rating <= 5
     THEN BeginTip(t, r, u, "rate_write", a)
     ELSE Reject("rate_ride", r, u)

\* ... tip_amount is written as the tip of this request, and driver_earnings
\* as the value read plus the tip when there is one. (The driver's average
\* rating, written next, is not a field of the rows here.)
RateRide_Write(t) ==
  /\ tasks[t].pc = "rate_write"
  /\ rides' = [rides EXCEPT ![tasks[t].ride].tip_amount = tasks[t].amount,
                            ![tasks[t].ride].driver_earnings =
                               IF tasks[t].amount > 0
                               THEN tasks[t].doc.driver_earnings + tasks[t].amount ELSE @,
                            ![tasks[t].ride].tipped = @ + tasks[t].amount]
  /\ tasks' = [tasks EXCEPT ![t] = IdleTask]
  /\ UNCHANGED background
  /\ last' = Event("rate_ride", tasks[t].ride)
  /\ UNCHANGED <<drivers, hist>>

TipRequest ==
  \E t \in Tasks, u \in Riders, r \in RideIds, a \in TipAmounts :
    \/ add_tip(t, u, r, a)
    \/ routes_add_tip(t, u, r, a)
    \/ \E rating \in Ratings : rate_ride(t, u, r, rating, a)

TipStep(t) ==
  \/ AddTip_Write(t)
  \/ AddTip_DriverRead(t)
  \/ AddTip_DriverWrite(t)
  \/ RoutesAddTip_Write(t)
  \/ RateRide_Write(t)

(* ------------------------------- Next ---------------------------------- *)

MatchStep(t) ==
  \/ Match_Locate(t)
  \/ Match_Demo(t)
  \/ Match_Claim(t)
  \/ Match_Loop(t)
  \/ Match_Assign(t)

CompleteStep(t) ==
  \/ Complete_Ride(t)
  \/ Complete_Read(t)
  \/ Complete_Write(t)

ReleaseStep(t) ==
  \/ Decline_Release(t)
  \/ Decline_Reset(t)
  \/ DriverCancel_Release(t)
  \/ DriverCancel_Cancel(t)
  \/ DriverCancel_Reset(t)

RiderRequest ==
  \E u \in Riders, r \in RideIds :
    \/ cancel_ride(u, r)
    \/ simulate_driver_arrival(u, r)
    \/ start_ride(u, r)
    \/ complete_ride(u, r)

ProfileRequest ==
  \E u \in DriverUsers :
    \/ upload_driver_document(u)
    \/ \E b \in BOOLEAN : update_driver_profile(u, b) \/ update_driver_status(u, b)

DriverRequest ==
  \E u \in DriverUsers, r \in RideIds :
    \/ driver_accept_ride(u, r)
    \/ driver_arrive_at_pickup(u, r)
    \/ driver_start_ride(u, r)
    \/ \E otp \in Otps : driver_verify_otp(u, r, otp)
    \/ \E t \in Tasks : driver_complete_ride(t, u, r)

ReleaseRequest ==
  \E t \in Tasks, u \in DriverUsers, r \in RideIds :
    \/ driver_decline_ride(t, u, r)
    \/ driver_cancel_ride(t, u, r)

RoutesRequest ==
  \E u \in DriverUsers, r \in RideIds :
    \/ routes_accept_ride(u, r)
    \/ routes_decline_ride(u, r)
    \/ routes_arrive_at_pickup(u, r)
    \/ routes_start_ride(u, r)
    \/ routes_complete_ride(u, r)
    \/ routes_cancel_ride(u, r)
    \/ \E otp \in Otps : routes_verify_pickup_otp(u, r, otp)

CreateRequest == \E t \in Tasks, u \in Riders : create_ride(t, u)

\* Dispatch in server.py: rides are created, matched, declined or cancelled
\* by the driver and cancelled by the rider, MaxRides rides and NumTasks
\* requests at a time.
Next ==
  \/ CreateRequest
  \/ \E t \in Tasks : MatchStep(t)
  \/ \E u \in Riders, r \in RideIds : cancel_ride(u, r)
  \/ ReleaseRequest
  \/ \E t \in Tasks : ReleaseStep(t)

Spec == Init /\ [][Next]_vars

\* The driver accounts of server.py: profile, documents and status, beside
\* creation and matching.
NextProfile ==
  \/ CreateRequest
  \/ \E t \in Tasks : MatchStep(t)
  \/ ProfileRequest

SpecProfile == Init /\ [][NextProfile]_vars

\* A ride as dispatch leaves it: bound to driver d and driver_assigned, or
\* searching when no driver was claimed (d = Null).
Dispatched(r, d) ==
  [Ride("ua", generate_otp[r]) EXCEPT
     !.driver_id = d, !.status = IF d = Null THEN "searching" ELSE "driver_assigned"]

\* The tables after dispatch left the first ride to driver a and the second,
\* if there is one (b is not "none"), to driver b; Null is no driver.
DispatchedTo(a, b) ==
  /\ rides = [r \in RideIds |->
                IF r = 1 THEN Dispatched(r, a)
                ELSE IF r = 2 /\ b # "none" THEN Dispatched(r, b)
                ELSE NoRide]
  /\ drivers = [d \in DriverIds |->
                  IF d \in SeedDrivers THEN [Driver EXCEPT !.is_available = d \notin {a, b}]
                  ELSE NoDriver]
  /\ hist = [d \in DriverIds |-> [NoHist EXCEPT !.wins = IF d \in {a, b} THEN 1 ELSE 0]]
  /\ tasks = [t \in Tasks |-> IdleTask]
  /\ last = NoEvent
  /\ InitBackground

\* The states Spec reaches with every request returned, in which the first ride
\* is searching or assigned to d1 and the second, if requested, is searching or
\* assigned to d2.
InitDispatched == \E a \in {Null, "d1"}, b \in {"none", Null, "d2"} : DispatchedTo(a, b)

\* Those of them in which the second ride, if requested, found no driver.
InitLifecycle == \E a \in {Null, "d1"}, b \in {"none", Null} : DispatchedTo(a, b)

\* The life of dispatched rides in server.py: the rider's requests and the
\* drivers' accept, arrive, start and complete, NumTasks requests at a time.
NextLifecycle ==
  \/ \E t \in Tasks : CompleteStep(t)
  \/ RiderRequest
  \/ DriverRequest

SpecLifecycle == InitLifecycle /\ [][NextLifecycle]_vars

\* The life of dispatched rides under the routers of routes/drivers.py.
NextRoutes == RoutesRequest

SpecRoutes == InitDispatched /\ [][NextRoutes]_vars

\* The states SpecLifecycle reaches when the first ride, assigned to d1, has
\* been started and, at choice, completed by d1.
InitStarted ==
  \E done \in BOOLEAN :
    /\ rides = [r \in RideIds |->
                  IF r = 1
                  THEN [Dispatched(r, "d1") EXCEPT
                          !.status = IF done THEN "completed" ELSE "in_progress",
                          !.started = TRUE]
                  ELSE NoRide]
    /\ drivers = [d \in DriverIds |->
                    IF d = "d1"
                    THEN [Driver EXCEPT !.is_available = done,
                                        !.total_rides = IF done THEN 1 ELSE 0]
                    ELSE IF d \in SeedDrivers THEN Driver
                    ELSE NoDriver]
    /\ hist = [d \in DriverIds |->
                 [NoHist EXCEPT !.wins = IF d = "d1" /\ ~done THEN 1 ELSE 0]]
    /\ tasks = [t \in Tasks |-> IdleTask]
    /\ last = NoEvent
    /\ InitBackground

\* Tips on a ride: add_tip of server.py and of routes/rides.py and rate_ride,
\* NumTasks requests at a time.
NextTips ==
  \/ TipRequest
  \/ \E t \in Tasks : TipStep(t)

SpecTips == InitStarted /\ [][NextTips]_vars

\* The state Spec reaches when the first ride is assigned to d1 and its
\* request has returned.
InitAssigned ==
  /\ rides = [r \in RideIds |-> IF r = 1 THEN Dispatched(r, "d1") ELSE NoRide]
  /\ drivers = [d \in DriverIds |->
                  IF d \in SeedDrivers THEN [Driver EXCEPT !.is_available = d # "d1"]
                  ELSE NoDriver]
  /\ hist = [d \in DriverIds |-> [NoHist EXCEPT !.wins = IF d = "d1" THEN 1 ELSE 0]]
  /\ tasks = [t \in Tasks |-> IdleTask]
  /\ last = NoEvent
  /\ InitBackground

\* The ways back in server.py: the assigned ride is accepted and arrived at,
\* cancelled by the rider, declined or cancelled by the driver, and matched
\* again.
NextCancel ==
  \/ \E u \in DriverUsers, r \in RideIds : driver_accept_ride(u, r)
  \/ \E u \in DriverUsers, r \in RideIds : driver_arrive_at_pickup(u, r)
  \/ \E u \in Riders, r \in RideIds : cancel_ride(u, r)
  \/ ReleaseRequest
  \/ \E t \in Tasks : ReleaseStep(t)
  \/ \E t \in Tasks : MatchStep(t)

SpecCancel == InitAssigned /\ [][NextCancel]_vars

(* ------------------- the hub of routes/websocket.py -------------------- *)

\* A client opens /ws/{client_type}/{client_id}: websocket.accept().
ws_accept(c, client_type, client_id) ==
  /\ conns[c].pc = "none"
  /\ conns' = [conns EXCEPT ![c] = [NoConn EXCEPT !.pc = "accepted",
                                                  !.client_type = client_type,
                                                  !.client_id = client_id]]
  /\ last' = HubEvent("accept", c, 0, Null, "ok", {})
  /\ UNCHANGED <<rides, drivers, tasks, hist, active_connections, clock, promoter, quote>>

\* The user the handshake resolves the first message to: none unless it is
\* an auth message with a token that verifies, and none for a driver
\* connection of a user without a driver row.
HandshakeUser(client_type, msg) ==
  LET user == IF msg.type = "auth" /\ msg.token # NoToken
              THEN VerifyToken(msg.token)
              ELSE Null
  IN IF user # Null /\ client_type = "driver" /\ DriverOf(user) = Null THEN Null ELSE user

\* The first message of connection c: it is registered under its key, or sent
\* an error and closed.
ws_auth(c, msg) ==
  /\ conns[c].pc = "accepted"
  /\ LET user == HandshakeUser(conns[c].client_type, msg)
         key == ConnectionKey(conns[c].client_type, user)
     IN IF user # Null
        THEN /\ conns' = [conns EXCEPT ![c].pc = "open", ![c].user = user,
                                       ![c].key = key, ![c].first = msg]
             /\ active_connections' = [active_connections EXCEPT ![key] = c]
             /\ last' = HubEvent("auth", c, 0, Null, "ok", {})
        ELSE /\ conns' = [conns EXCEPT ![c].pc = "closed", ![c].first = msg]
             /\ last' = HubEvent("auth", c, 0, Null, "closed", {})
             /\ UNCHANGED active_connections
  /\ UNCHANGED <<rides, drivers, tasks, hist, clock, promoter, quote>>

\* The client of connection c goes away: receive_json raises
\* WebSocketDisconnect, and manager.disconnect(connection_key) deletes the key
\* if the connection had one.
ws_disconnect(c) ==
  /\ conns[c].pc \in {"accepted", "open"}
  /\ conns' = [conns EXCEPT ![c].pc = "closed"]
  /\ active_connections' =
       IF conns[c].pc = "open"
       THEN [active_connections EXCEPT ![conns[c].key] = 0]
       ELSE active_connections
  /\ last' = HubEvent("disconnect", c, 0, Null, "ok", {})
  /\ UNCHANGED <<rides, drivers, tasks, hist, clock, promoter, quote>>

\* The statuses of the rides a position is forwarded for.
ForwardStatuses == {"driver_assigned", "driver_arrived", "in_progress"}

\* A driver_location or location_update message with driver_id (Null: not
\* sent), lat and lng: the position is taken if the connection is a driver's
\* and the driver row is its user's, and forwarded to the riders.
ws_driver_location(c, driver_id, lat, lng) ==
  /\ conns[c].pc = "open"
  /\ LET user == conns[c].user
         d == IF driver_id = Null /\ conns[c].client_type = "driver"
              THEN DriverOf(user)
              ELSE driver_id
         is_valid_driver ==
           conns[c].client_type = "driver" /\ d # Null /\ drivers[d].exists /\ OwnerOf(d) = user
         taken == d # Null /\ lat # 0 /\ lng # 0 /\ is_valid_driver
         found == {r \in RideIds : rides[r].driver_id = d /\ rides[r].status \in ForwardStatuses}
         sent == UNION {Delivery(active_connections,
                                 ConnectionKey("rider", rides[r].rider_id),
                                 "driver_location_update") : r \in found}
     IN last' = IF taken
                THEN HubEvent("driver_location", c, 0, d, "ok", sent)
                ELSE HubEvent("driver_location", c, 0, d, "ignored", {})
  /\ UNCHANGED <<rides, drivers, tasks, hist, conns, active_connections, clock, promoter, quote>>

\* A ride_status_update message about ride r: ride_status_changed goes to the
\* ride's rider.
ws_ride_status_update(c, r) ==
  /\ conns[c].pc = "open"
  /\ last' = IF rides[r].status # "none"
             THEN HubEvent("ride_status_update", c, r, Null, "ok",
                           Delivery(active_connections,
                                    ConnectionKey("rider", rides[r].rider_id),
                                    "ride_status_changed"))
             ELSE HubEvent("ride_status_update", c, r, Null, "ignored", {})
  /\ UNCHANGED <<rides, drivers, tasks, hist, conns, active_connections, clock, promoter, quote>>

\* The key a chat_message about ride r is relayed to, by the sender the
\* message names.
ChatTarget(r, sender) ==
  LET d == rides[r].driver_id
  IN IF sender = "driver" THEN ConnectionKey("rider", rides[r].rider_id)
     ELSE IF sender = "rider" /\ d # Null /\ drivers[d].exists /\ OwnerOf(d) # Null
     THEN ConnectionKey("driver", OwnerOf(d))
     ELSE NoKey

\* A chat_message about ride r with a text, naming its sender.
ws_chat_message(c, r, sender) ==
  /\ conns[c].pc = "open"
  /\ LET target == IF rides[r].status # "none" THEN ChatTarget(r, sender) ELSE NoKey
     IN last' = IF target # NoKey
                THEN HubEvent("chat_message", c, r, Null, "ok",
                              Delivery(active_connections, target, "chat_message"))
                ELSE HubEvent("chat_message", c, r, Null, "ignored", {})
  /\ UNCHANGED <<rides, drivers, tasks, hist, conns, active_connections, clock, promoter, quote>>

HubRequest ==
  \/ \E c \in Conns, ct \in ClientTypes, cid \in ClientIds : ws_accept(c, ct, cid)
  \/ \E c \in Conns, msg \in FirstMessages : ws_auth(c, msg)
  \/ \E c \in Conns : ws_disconnect(c)
  \/ \E c \in Conns, d \in SeedDrivers \cup {Null}, lat \in Coordinates, lng \in Coordinates :
       ws_driver_location(c, d, lat, lng)
  \/ \E c \in Conns, r \in RideIds : ws_ride_status_update(c, r)
  \/ \E c \in Conns, r \in RideIds, sender \in Senders : ws_chat_message(c, r, sender)

\* The hub beside an assigned ride that its driver accepts and arrives at.
NextHub ==
  \/ HubRequest
  \/ \E u \in DriverUsers, r \in RideIds : driver_accept_ride(u, r)
  \/ \E u \in DriverUsers, r \in RideIds : driver_arrive_at_pickup(u, r)

SpecHub == InitAssigned /\ [][NextHub]_vars

(* ------------- check_scheduled_rides of backend/features.py ------------ *)

\* db.rides.find({'status': 'scheduled', 'is_scheduled': True}).to_list(50),
\* in the store's order; schedule_ride alone writes status scheduled, and it
\* sets is_scheduled with it.
ScheduledRides ==
  LET found == SelectSeq([i \in 1..MaxRides |-> i], LAMBDA r : rides[r].status = "scheduled")
  IN SubSeq(found, 1, Min(Len(found), ListCap))

\* The promoter after the ride at idx: on to the next of the list, or to
\* asyncio.sleep(60) after the last.
AfterRide(p) ==
  IF p.idx < Len(p.scheduled)
  THEN [p EXCEPT !.pc = "ride", !.idx = @ + 1]
  ELSE [p EXCEPT !.pc = "sleep"]

\* The tick starts: now is read and the scheduled rides are listed.
Tick_Find ==
  /\ promoter.pc = "find"
  /\ promoter' = IF ScheduledRides = <<>>
                 THEN [promoter EXCEPT !.pc = "sleep", !.now = clock, !.scheduled = <<>>]
                 ELSE [promoter EXCEPT !.pc = "ride", !.now = clock,
                                       !.scheduled = ScheduledRides, !.idx = 1]
  /\ last' = PromoterEvent(0, "step")
  /\ UNCHANGED <<rides, drivers, tasks, hist, conns, active_connections, clock, quote>>

\* The body of the loop for ride r, the next of the list: fromisoformat
\* raises on its scheduled_time and the tick ends in the except clause, or the
\* ride is due and set to searching, or it is passed over.
Tick_Ride(r) ==
  /\ promoter.pc = "ride"
  /\ promoter.scheduled[promoter.idx] = r
  /\ LET sched_time == rides[r].scheduled_time
     IN IF sched_time = Unparsable
        THEN /\ promoter' = [promoter EXCEPT !.pc = "sleep", !.error = TRUE]
             /\ last' = PromoterEvent(r, "raised")
             /\ UNCHANGED rides
        ELSE IF sched_time # NoTime /\ Due(sched_time, promoter.now)
        THEN /\ rides' = [rides EXCEPT ![r].status = "searching",
                                       ![r].ride_requested_at = clock]
             /\ promoter' = [promoter EXCEPT !.pc = "push", !.promoted = @ \cup {r}]
             /\ last' = PromoterEvent(r, "promoted")
        ELSE /\ promoter' = AfterRide(promoter)
             /\ last' = PromoterEvent(r, "passed")
             /\ UNCHANGED rides
  /\ UNCHANGED <<drivers, tasks, hist, conns, active_connections, clock, quote>>

\* send_push_notification for the ride just promoted: it returns True when
\* the rider has an fcm_token and the message is sent, False otherwise.
Tick_Push(sent) ==
  /\ promoter.pc = "push"
  /\ LET r == promoter.scheduled[promoter.idx]
     IN /\ promoter' = [AfterRide(promoter) EXCEPT
                          !.attempted = @ \cup {r},
                          !.notified = IF sent THEN @ \cup {r} ELSE @]
        /\ last' = PromoterEvent(r, IF sent THEN "notified" ELSE "step")
  /\ UNCHANGED <<rides, drivers, tasks, hist, conns, active_connections, clock, quote>>

\* A call of the store raises inside the tick (the find, the update of a due
\* ride, the users read of send_push_notification): the except clause logs it.
Tick_Raise ==
  /\ \/ promoter.pc \in {"find", "push"}
     \/ /\ promoter.pc = "ride"
        /\ LET sched_time == rides[promoter.scheduled[promoter.idx]].scheduled_time
           IN sched_time \notin {NoTime, Unparsable} /\ Due(sched_time, promoter.now)
  /\ promoter' = [promoter EXCEPT !.pc = "sleep", !.error = TRUE,
                                  !.now = IF promoter.pc = "find" THEN clock ELSE @]
  /\ last' = PromoterEvent(0, "raised")
  /\ UNCHANGED <<rides, drivers, tasks, hist, conns, active_connections, clock, quote>>

\* asyncio.sleep(60) returns and the loop goes round.
Tick_Sleep ==
  /\ promoter.pc = "sleep"
  /\ clock' = Min(clock + TickInterval, MaxClock)
  /\ promoter' = [promoter EXCEPT !.pc = "find", !.scheduled = <<>>, !.idx = 0,
                                  !.promoted = {}, !.attempted = {}, !.notified = {},
                                  !.error = FALSE]
  /\ last' = PromoterEvent(0, "step")
  /\ UNCHANGED <<rides, drivers, tasks, hist, conns, active_connections, quote>>

\* POST /rides/schedule for a time lead minutes ahead.
schedule_ride(u, lead) ==
  /\ \E r \in RideIds : rides[r].status = "none"
  /\ IF lead < MinLead
     THEN Reject("schedule_ride", 0, u)
     ELSE /\ rides' = [rides EXCEPT ![NewRideId] = ScheduledRide(u, clock + lead, clock)]
          /\ UNCHANGED background
          /\ last' = Event("schedule_ride", NewRideId)
          /\ UNCHANGED <<drivers, tasks, hist>>

\* DELETE /rides/scheduled/{ride_id}.
cancel_scheduled_ride(r) ==
  IF rides[r].status = "scheduled"
  THEN /\ rides' = [rides EXCEPT ![r].status = "cancelled"]
       /\ UNCHANGED background
       /\ last' = Event("cancel_scheduled_ride", r)
       /\ UNCHANGED <<drivers, tasks, hist>>
  ELSE Reject("cancel_scheduled_ride", r, Null)

\* The server starts with rides that were scheduled earlier.
InitPromoter ==
  \E t1 \in EarlierTimes, t2 \in EarlierTimes \cup {NoTime} :
    /\ rides = [r \in RideIds |->
                  IF r = 1 THEN ScheduledRide("ua", t1, 0)
                  ELSE IF r = 2 /\ t2 # NoTime THEN ScheduledRide("ua", t2, 0)
                  ELSE NoRide]
    /\ drivers = [d \in DriverIds |-> IF d \in SeedDrivers THEN Driver ELSE NoDriver]
    /\ tasks = [t \in Tasks |-> IdleTask]
    /\ hist = [d \in DriverIds |-> NoHist]
    /\ last = NoEvent
    /\ InitBackground

\* The promoter beside the scheduling requests.
NextPromoter ==
  \/ Tick_Find
  \/ \E r \in RideIds : Tick_Ride(r)
  \/ \E sent \in BOOLEAN : Tick_Push(sent)
  \/ Tick_Raise
  \/ Tick_Sleep
  \/ \E u \in Riders, lead \in Leads : schedule_ride(u, lead)
  \/ \E r \in RideIds : cancel_scheduled_ride(r)

SpecPromoter == InitPromoter /\ [][NextPromoter]_vars

\* The promoter's task is scheduled whenever it can run, and a call that is
\* made again and again does not raise every time.
FairPromoter ==
  /\ SpecPromoter
  /\ WF_vars(Tick_Sleep)
  /\ SF_vars(Tick_Find)
  /\ \A r \in RideIds : SF_vars(Tick_Ride(r))
  /\ SF_vars(\E sent \in BOOLEAN : Tick_Push(sent))

(* ---------------- the promoter beside request-time matching ------------ *)

\* The server starts with or without a ride that was scheduled earlier and
\* is due, and with the drivers available or not as they last set it.
InitDispatch ==
  \E t1 \in {3, NoTime}, on \in SUBSET SeedDrivers :
    /\ rides = [r \in RideIds |->
                  IF r = 1 /\ t1 # NoTime THEN ScheduledRide("ua", t1, 0) ELSE NoRide]
    /\ drivers = [d \in DriverIds |->
                    IF d \in SeedDrivers THEN [Driver EXCEPT !.is_available = d \in on]
                    ELSE NoDriver]
    /\ tasks = [t \in Tasks |-> IdleTask]
    /\ hist = [d \in DriverIds |-> NoHist]
    /\ last = NoEvent
    /\ InitBackground

\* A step of the promoter's task.
TickStep ==
  \/ Tick_Find
  \/ \E r \in RideIds : Tick_Ride(r)
  \/ \E sent \in BOOLEAN : Tick_Push(sent)
  \/ Tick_Raise
  \/ Tick_Sleep

\* Every path on which a ride is matched or promoted: the ride requests with
\* their matching runs, and the promoter.
NextDispatch ==
  \/ CreateRequest
  \/ \E t \in Tasks : MatchStep(t)
  \/ TickStep

SpecDispatch == InitDispatch /\ [][NextDispatch]_vars

\* The promoter's task and the requests in flight are scheduled whenever they
\* can run; a new request is the client's to make or not.
FairDispatch ==
  /\ SpecDispatch
  /\ WF_vars(Tick_Sleep)
  /\ SF_vars(Tick_Find)
  /\ \A r \in RideIds : SF_vars(Tick_Ride(r))
  /\ SF_vars(\E sent \in BOOLEAN : Tick_Push(sent))
  /\ \A t \in Tasks : WF_vars(MatchStep(t))

(* ------------------- matching over a store that fails ------------------ *)

\* ... a store call of match_driver_to_ride that raised, for ride r, with
\* the driver d the run had claimed by then (Null: none).
ErrorEvent(r, d) == [op |-> "match_driver_to_ride", ride |-> r, driver |-> d, res |-> "error"]

\* A store call of the run raises: the find or the RPC, a conditional claim,
\* or the update of the ride. The failed call writes nothing; nothing on the
\* way out catches the exception or undoes what the run wrote before, and
\* the request of create_ride ends with it.
Match_Raise(t) ==
  /\ tasks[t].pc \in {"m_locate", "m_claim", "m_loop", "m_assign"}
  /\ tasks' = [tasks EXCEPT ![t] = IdleTask]
  /\ last' = ErrorEvent(tasks[t].ride,
                        IF tasks[t].pc = "m_assign" THEN tasks[t].sel ELSE Null)
  /\ UNCHANGED <<rides, drivers, hist>>
  /\ UNCHANGED background

\* Creation and matching, beside the driver accounts, over a store whose
\* calls can fail.
NextFaults ==
  \/ NextProfile
  \/ \E t \in Tasks : Match_Raise(t)

SpecFaults == Init /\ [][NextFaults]_vars

(* ---------------- fare_estimate of backend/features.py ---------------- *)

\* GET /rides/fare-estimate answers the request.
fare_estimate ==
  /\ quote.pc = "request"
  /\ quote' = Quote(quote)
  /\ last' = Event("fare_estimate", 0)
  /\ UNCHANGED <<rides, drivers, tasks, hist, conns, active_connections, clock, promoter>>

\* One request, of either kind, is on its way.
InitFares ==
  /\ rides = [r \in RideIds |-> NoRide]
  /\ drivers = [d \in DriverIds |-> IF d \in SeedDrivers THEN Driver ELSE NoDriver]
  /\ tasks = [t \in Tasks |-> IdleTask]
  /\ hist = [d \in DriverIds |-> NoHist]
  /\ last = NoEvent
  /\ InitQuiet
  /\ quote \in NightRequests \cup AreaRequests

NextFares == fare_estimate

SpecFares == InitFares /\ [][NextFares]_vars

(* ------------------------------ properties ---------------------------- *)

\* Every request has returned.
Quiescent == \A t \in Tasks : tasks[t].pc = "idle"

\* C1: no driver is the driver_id of more than one ride whose status is
\* driver_assigned, driver_accepted, driver_arrived or in_progress; stated for
\* the states in which every request has returned.
C1_OneActiveRidePerDriver ==
  Quiescent => \A d \in DriverIds : Cardinality(ActiveRidesOf(d)) <= 1

\* A step that is a conditional claim of driver d.
ClaimStep(d) == last'.op = "claim" /\ last'.driver = d

C3_UnavailableHasOneActiveRide ==
  Quiescent =>
    \A d \in DriverIds :
      drivers[d].exists /\ ~drivers[d].is_available => Cardinality(ActiveRidesOf(d)) = 1

\* C4: a ride that is under way or completed has a driver_id, and the
\* driver_id of a ride that has left searching changes only when the ride is
\* put back to searching with driver_id null.
C4_DriverIdSetAndStable ==
  /\ [](\A r \in RideIds :
          rides[r].status \in ActiveStatuses \cup {"completed"} => rides[r].driver_id # Null)
  /\ [][\A r \in RideIds :
          /\ rides[r].status \notin {"none", "searching"}
          /\ rides'[r].driver_id # rides[r].driver_id
          => rides'[r].status = "searching" /\ rides'[r].driver_id = Null]_vars

\* The handlers that complete, cancel or decline a ride, by the op of their
\* response.
ReleasingOps ==
  {"cancel_ride", "driver_complete_ride", "routes_complete_ride", "routes_cancel_ride",
   "routes_decline_ride"}

\* C5: when a complete, cancel or decline of a ride bound to driver d returns
\* and d is then bound to no ride under way, d's is_available is true.
C5_ReleasedOnReturn ==
  [][\A r \in RideIds, d \in DriverIds :
       /\ rides[r].status # "none" /\ rides[r].driver_id = d
       /\ last'.op \in ReleasingOps /\ last'.ride = r
       /\ rides'[r].status # rides[r].status
       /\ ActiveRidesOf(d)' = {}
       => drivers'[d].is_available]_vars

\* A step in which complete, cancel or decline releases driver d for a ride
\* bound to d.
ReleaseStepOf(d) ==
  \/ \E t \in Tasks :
       /\ tasks[t].pc \in {"c_write", "dec_release", "dc_release"}
       /\ tasks'[t].pc # tasks[t].pc
       /\ tasks[t].actor = d
       /\ rides[tasks[t].ride].driver_id = d
  \/ /\ last'.op \in {"cancel_ride", "routes_complete_ride", "routes_cancel_ride"}
     /\ last'.ride \in RideIds
     /\ rides[last'.ride].status # "none"
     /\ rides[last'.ride].driver_id = d

\* C6: is_available of a driver changes only in a conditional claim (true to
\* false) or in a release by complete, cancel or decline on a ride bound to
\* that driver (false to true).
C6_AvailabilityFrame ==
  [][\A d \in DriverIds :
       /\ drivers[d].exists /\ drivers'[d].exists
       /\ drivers'[d].is_available # drivers[d].is_available
       => \/ ClaimStep(d) /\ drivers[d].is_available
          \/ ReleaseStepOf(d) /\ ~drivers[d].is_available]_vars

\* The status changes of section 4.5: the chain, cancelled from every status
\* but completed, and the decline or cancel reset to searching.
Transitions ==
  {<<"searching", "driver_assigned">>, <<"driver_assigned", "driver_accepted">>,
   <<"driver_accepted", "driver_arrived">>, <<"driver_arrived", "in_progress">>,
   <<"in_progress", "completed">>}
  \cup {<<s, "cancelled">> : s \in Statuses \ {"completed", "cancelled"}}
  \cup {<<s, "searching">> : s \in {"driver_assigned", "driver_accepted", "driver_arrived", "cancelled"}}

\* C7: a ride's status changes only along the transitions: each lifecycle
\* action succeeds from its source status only.
C7_TransitionTable ==
  [][\A r \in RideIds :
       rides[r].status # "none" /\ rides'[r].status # rides[r].status
       => <<rides[r].status, rides'[r].status>> \in Transitions]_vars

\* C8: an accept that succeeds finds the ride driver_assigned and bound to the
\* caller's driver, and leaves driver_id as it was.
C8_AcceptGuard ==
  [][\A r \in RideIds :
       last'.op \in {"driver_accept_ride", "routes_accept_ride"} /\ last'.ride = r
       => /\ rides[r].status = "driver_assigned"
          /\ rides[r].driver_id # Null
          /\ rides'[r].driver_id = rides[r].driver_id
          /\ rides'[r].status = "driver_accepted"]_vars

\* C9: a ride becomes in_progress only from driver_arrived, by the bound
\* driver's verify-OTP or start request, and with started-at recorded.
C9_StartGuard ==
  [][\A r \in RideIds :
       rides'[r].status = "in_progress" /\ rides[r].status # "in_progress"
       => /\ rides[r].status = "driver_arrived"
          /\ last'.op \in {"driver_verify_otp", "driver_start_ride",
                           "routes_verify_pickup_otp", "routes_start_ride"}
          /\ rides'[r].started]_vars

\* C10: total_rides of a driver is never increased more often than rides were
\* written completed by that driver's complete requests.
C10_TotalRidesCounted == \A d \in DriverIds : hist[d].owed >= 0

\* A step that writes cancelled to ride r.
Cancellation(r) == rides[r].status \notin {"none", "cancelled"} /\ rides'[r].status = "cancelled"

\* C11: a cancellation of a ride whose driver has arrived leaves the configured
\* cancellation fees on the ride, and a cancellation from searching,
\* driver_assigned or driver_accepted leaves the fees as they were.
C11_CancellationFee ==
  [][\A r \in RideIds :
       Cancellation(r) =>
         rides'[r].cancellation_fee =
           IF rides[r].status = "driver_arrived"
           THEN <<CancellationFeeAdmin, CancellationFeeDriver>>
           ELSE rides[r].cancellation_fee]_vars

\* The driver of user u is bound to ride r, which is driver_assigned or
\* driver_accepted, and a request can be taken.
Returnable(u, r) ==
  /\ RideOfDriver(r, DriverOf(u))
  /\ rides[r].status \in {"driver_assigned", "driver_accepted"}
  /\ FreeTask # 0

\* C12: a decline or a driver-cancel by the bound driver of a ride that is
\* driver_assigned or driver_accepted is taken up and not rejected; its reset
\* leaves the ride searching with driver_id null and goes on to a matching
\* pass; a pass that claims no driver leaves the ride as the reset wrote it.
C12_DeclineResets ==
  /\ [](\A u \in DriverUsers, r \in RideIds :
          Returnable(u, r) =>
            /\ ENABLED (driver_decline_ride(FreeTask, u, r) /\ tasks'[FreeTask].pc = "dec_release")
            /\ ENABLED (driver_cancel_ride(FreeTask, u, r) /\ tasks'[FreeTask].pc = "dc_release"))
  /\ [][\A t \in Tasks :
          /\ tasks[t].pc \in {"dec_reset", "dc_reset"} /\ tasks'[t].pc # tasks[t].pc
             => /\ rides'[tasks[t].ride].status = "searching"
                /\ rides'[tasks[t].ride].driver_id = Null
                /\ tasks'[t].pc = "m_locate" /\ tasks'[t].ride = tasks[t].ride
          /\ tasks[t].pc \in {"m_locate", "m_demo", "m_loop"} /\ tasks'[t].pc = "idle"
             => rides' = rides]_vars

\* The place of a status in the chain searching < driver_assigned <
\* driver_accepted < driver_arrived < in_progress < completed.
StatusRank(s) ==
  CASE s = "searching" -> 0
    [] s = "driver_assigned" -> 1
    [] s = "driver_accepted" -> 2
    [] s = "driver_arrived" -> 3
    [] s = "in_progress" -> 4
    [] s = "completed" -> 5
    [] OTHER -> 6

\* A step in which a decline or a driver-cancel resets ride r.
ResetStep(r) ==
  \/ \E t \in Tasks :
       tasks[t].pc \in {"dec_reset", "dc_reset"} /\ tasks'[t].pc # tasks[t].pc /\ tasks[t].ride = r
  \/ last'.op = "routes_decline_ride" /\ last'.ride = r

\* C13: a ride's status never moves to an earlier status of the chain except
\* by the decline or driver-cancel reset to searching, and a ride that is
\* completed or cancelled keeps its status.
C13_ForwardAndTerminal ==
  [][\A r \in RideIds :
       rides[r].status # "none" /\ rides'[r].status # rides[r].status
       => /\ rides[r].status \notin {"completed", "cancelled"}
          /\ \/ rides'[r].status = "cancelled"
             \/ rides'[r].status = "searching" /\ ResetStep(r)
             \/ StatusRank(rides'[r].status) > StatusRank(rides[r].status)]_vars

\* C14: a tip is taken only for a completed ride, and the tips taken add up:
\* tip_amount and driver_earnings of a ride have both grown by the sum of the
\* tips accepted for it.
C14_TipsAddUp ==
  \A r \in RideIds :
    /\ rides[r].tipped > 0 => rides[r].status = "completed"
    /\ rides[r].tip_amount = rides[r].tipped
    /\ rides[r].driver_earnings = rides[r].tipped

\* The status changes that a lifecycle request may make, by the op of its
\* response (the handlers that answer in the step in which they write).
ValidChanges(op) ==
  CASE op \in {"driver_accept_ride", "routes_accept_ride"} ->
         {<<"driver_assigned", "driver_accepted">>}
    [] op \in {"driver_arrive_at_pickup", "routes_arrive_at_pickup"} ->
         {<<"driver_accepted", "driver_arrived">>}
    [] op \in {"driver_verify_otp", "driver_start_ride", "routes_verify_pickup_otp",
               "routes_start_ride"} ->
         {<<"driver_arrived", "in_progress">>}
    [] op = "routes_complete_ride" -> {<<"in_progress", "completed">>}
    [] op \in {"cancel_ride", "routes_cancel_ride"} ->
         {<<s, "cancelled">> : s \in Statuses \ {"in_progress", "completed", "cancelled"}}
    [] op = "routes_decline_ride" ->
         {<<s, "searching">> : s \in {"driver_assigned", "driver_accepted"}}
    [] OTHER -> {}

LifecycleOps ==
  {"driver_accept_ride", "routes_accept_ride", "driver_arrive_at_pickup",
   "routes_arrive_at_pickup", "driver_verify_otp", "driver_start_ride",
   "routes_verify_pickup_otp", "routes_start_ride", "routes_complete_ride", "cancel_ride",
   "routes_cancel_ride", "routes_decline_ride"}

\* C15: a lifecycle request is answered with success only when the ride makes
\* the request's transition from a valid status; a request that is rejected
\* leaves every ride and every driver as it was.
C15_InvalidRejected ==
  [][/\ \A r \in RideIds :
          last'.res = "ok" /\ last'.op \in LifecycleOps /\ last'.ride = r
          => <<rides[r].status, rides'[r].status>> \in ValidChanges(last'.op)
     /\ last'.res = "rejected" => rides' = rides /\ drivers' = drivers]_vars

\* An auth message that carries a token whose verification succeeds.
VerifiedAuth(msg) == msg.type = "auth" /\ msg.token # NoToken /\ msg.token.valid

\* The messages the hub's loop takes.
HubMessages == {"driver_location", "ride_status_update", "chat_message"}

\* C16: every key of the connection registry belongs to a connection whose
\* first message was an auth message with a token that verified, and the
\* user part of the key is the user of that token, not the client_id of the
\* URL; a connection whose first message is anything else is closed, is
\* never in the registry, and no message of it is taken by the loop.
C16_RegisteredAfterHandshake ==
  /\ [](\A k \in Keys :
          active_connections[k] # 0 =>
            LET c == active_connections[k]
            IN /\ VerifiedAuth(conns[c].first)
               /\ k = <<conns[c].client_type, conns[c].first.token.user>>)
  /\ [](\A c \in Conns :
          conns[c].first # NoMessage /\ ~VerifiedAuth(conns[c].first) =>
            /\ conns[c].pc = "closed"
            /\ \A k \in Keys : active_connections[k] # c)
  /\ [][last'.op \in HubMessages => VerifiedAuth(conns[last'.conn].first)]_vars

\* A connection is registered under a user that the URL's client_id does not
\* name, while another was closed for a first message that is no valid auth.
C16_Witness ==
  \E k \in Keys, c2 \in Conns :
    /\ active_connections[k] # 0
    /\ conns[active_connections[k]].client_id # k[2]
    /\ conns[c2].pc = "closed"
    /\ conns[c2].first # NoMessage
    /\ ~VerifiedAuth(conns[c2].first)

\* C17: when the hub takes a position from a driver connection for its own
\* driver, a driver_location_update goes to the key of every rider with a
\* ride bound to that driver in driver_assigned, driver_accepted,
\* driver_arrived or in_progress whose key is in the registry.
C17_LocationFanOut ==
  [][last'.op = "driver_location" /\ last'.res = "ok" =>
       \A r \in RideIds :
         (/\ rides[r].status \in ActiveStatuses
          /\ rides[r].driver_id = last'.driver
          /\ active_connections[ConnectionKey("rider", rides[r].rider_id)] # 0)
         => \E m \in last'.sent :
              /\ m.key = ConnectionKey("rider", rides[r].rider_id)
              /\ m.type = "driver_location_update"]_vars

\* C18: a chat_message about ride r is delivered only when the user of the
\* sending connection is r's rider or the owner of r's driver, and only to
\* the key of the other of the two.
C18_ChatBetweenParties ==
  [][last'.op = "chat_message" =>
       \A m \in last'.sent :
         LET u == conns[last'.conn].user
             r == last'.ride
             d == rides[r].driver_id
         IN \/ /\ u = rides[r].rider_id
               /\ d # Null
               /\ m.key = ConnectionKey("driver", OwnerOf(d))
            \/ /\ d # Null
               /\ u = OwnerOf(d)
               /\ m.key = ConnectionKey("rider", rides[r].rider_id)]_vars

\* The promoter is through with a tick and asleep.
TickDone == promoter.pc = "sleep"

\* Ride r has a scheduled_time within five minutes of time now.
InWindow(r, now) ==
  /\ rides[r].scheduled_time \notin {NoTime, Unparsable}
  /\ rides[r].scheduled_time <= now + Lookahead

C20_PromoterSurvivesErrors ==
  /\ []<>(promoter.pc = "find")
  /\ \A r \in RideIds :
       (rides[r].status = "scheduled" /\ InWindow(r, clock)) ~> (rides[r].status # "scheduled")

\* The night fees of the answered request: the rows of kind night of a
\* matched area.
NightFees ==
  {i \in DOMAIN quote.fees : quote.area.matched /\ fee_type(quote.fees[i]) = "night"}

\* C21: at every hour h and for every night-fee window from s to e, the night
\* fee is applied if and only if the window wraps midnight (s > e) and h is
\* at or after s or before e, or it does not (s <= e) and h is from s up to
\* but not including e; so a window from 23 to 5 applies at 23 and at 0 and
\* not at 12.
C21_NightFeeWindow ==
  quote.pc = "response" =>
    \A i \in NightFees :
      LET h == quote.hour
          s == start_hour(quote.fees[i])
          e == end_hour(quote.fees[i])
      IN /\ (i \in quote.applied) <=>
              \/ s > e /\ (h >= s \/ h < e)
              \/ s <= e /\ s <= h /\ h < e
         /\ s = 23 /\ e = 5 /\ h \in {23, 0} => i \in quote.applied
         /\ s = 23 /\ e = 5 /\ h = 12 => i \notin quote.applied

\* A window from 23 to 5 was asked about just after midnight, and its fee of
\* 2.00 is the estimate's fee total.
C21_Witness ==
  /\ quote.pc = "response"
  /\ \E i \in NightFees :
       /\ start_hour(quote.fees[i]) = 23
       /\ end_hour(quote.fees[i]) = 5
       /\ quote.hour = 0
       /\ i \in quote.applied
  /\ quote.area_fees_total = 200

\* The tax the rule gives on a taxable amount in an area: the HST alone when
\* it is enabled, otherwise the GST and the PST that are enabled.
RuleTax(taxable, area) ==
  IF area.hst_enabled THEN TaxOf(taxable, area.hst_rate)
  ELSE (IF area.gst_enabled THEN TaxOf(taxable, area.gst_rate) ELSE 0)
       + (IF area.pst_enabled THEN TaxOf(taxable, area.pst_rate) ELSE 0)

\* C22: in every fare estimate the tax is the rule's tax on subtotal plus
\* fees_total, and grand_total is subtotal + fees_total + tax_amount to the
\* cent; for a pickup in an area with an airport fee of 5.00 and GST of 5%
\* alone and a subtotal of 20.00, fees_total is 5.00, the tax 1.25 and the
\* grand total 26.25.
C22_TaxAndGrandTotal ==
  quote.pc = "response" =>
    /\ quote.area.matched =>
         quote.tax_amount = RuleTax(quote.exact + 10 * quote.area_fees_total, quote.area)
    /\ quote.grand_total = quote.subtotal + quote.area_fees_total + quote.tax_amount
    /\ (/\ quote.area.matched
        /\ quote.area.airport_fee = 500
        /\ ~quote.area.hst_enabled /\ quote.area.gst_enabled /\ ~quote.area.pst_enabled
        /\ quote.exact = 20000
        /\ quote.fees = <<>>)
       => /\ quote.area_fees_total = 500
          /\ quote.tax_amount = 125
          /\ quote.grand_total = 2625

\* C23: every ride, requested for now or scheduled, has its pickup_otp set in
\* the step that creates its record, and no later step changes the
\* pickup_otp of a ride.
C23_OtpSetOnceAtCreation ==
  [][\A r \in RideIds :
       /\ rides[r].status = "none" /\ rides'[r].status # "none"
            => rides'[r].pickup_otp \in Otps
       /\ rides[r].status # "none"
            => rides'[r].pickup_otp = rides[r].pickup_otp]_vars

\* The drivers of a candidate list.
Range(s) == {s[i] : i \in 1..Len(s)}

KnownAlgorithms == {"nearest", "rating_based", "round_robin", "combined"}

\* C26: with an algorithm setting that is none of nearest, rating_based,
\* round_robin and combined, a run that finds candidates goes on exactly as
\* with nearest: it selects the candidate at the smallest distance and moves
\* on to claim it, down the same list.
C26_UnknownAsNearest ==
  \A t \in Tasks :
    /\ tasks[t].pc = "m_locate"
    /\ rides[tasks[t].ride].status # "none"
    /\ CandidateLocator(drivers) # {}
    => \A alg \in Algorithms \ KnownAlgorithms :
         /\ AfterSelect(t, alg, drivers) = AfterSelect(t, "nearest", drivers)
         /\ AfterSelect(t, alg, drivers).pc = "m_claim"

\* C25: when a store call of match_driver_to_ride fails, at a claim or at the
\* update of the ride after a claim, what is left is whole: a driver that the
\* run claimed is unavailable and is the driver of the ride, which is
\* driver_assigned, or it is available again and the ride is searching without
\* a driver; and a run that had claimed nobody leaves the ride searching
\* without a driver.
C25_FailureLeavesNoPartialState ==
  last.res = "error" =>
    LET r == last.ride
        d == last.driver
    IN IF d = Null
       THEN rides[r].status = "searching" /\ rides[r].driver_id = Null
       ELSE \/ /\ ~drivers[d].is_available
               /\ rides[r].driver_id = d /\ rides[r].status = "driver_assigned"
            \/ /\ drivers[d].is_available
               /\ rides[r].driver_id = Null /\ rides[r].status = "searching"

\* C28: a disconnect removes no registry entry but that of the connection
\* that disconnected: a connection that is registered under a key, a second
\* one of the same user included, is still registered under it, and so still
\* sent the messages for that key, after another connection went away.
C28_DisconnectRemovesOwnEntry ==
  [][last'.op = "disconnect" =>
       \A k \in Keys :
         active_connections[k] # 0 /\ active_connections[k] # last'.conn
           => active_connections'[k] = active_connections[k]]_vars

\* C29: a scheduled ride that was cancelled stays cancelled: however a tick
\* of the promoter, which reads the scheduled rides and then updates them one
\* by one, interleaves with cancel_scheduled_ride, no step takes a cancelled
\* ride to searching or to any status but cancelled.
C29_CancelledForGood ==
  [][\A r \in RideIds :
       rides[r].status = "cancelled" => rides'[r].status = "cancelled"]_vars

\* C30: a matching pass writes its binding only to a ride that is searching
\* at that moment: the step of a pass that binds its ride finds it searching,
\* and no step takes a cancelled ride to driver_assigned, however the pass
\* interleaves with a cancel by the rider or with another pass.
C30_BindsOnlySearching ==
  [][/\ \A t \in Tasks :
          tasks[t].pc = "m_assign" /\ tasks'[t] # tasks[t]
          /\ rides'[tasks[t].ride] # rides[tasks[t].ride]
            => rides[tasks[t].ride].status = "searching"
     /\ \A r \in RideIds :
          rides[r].status = "cancelled" => rides'[r].status # "driver_assigned"]_vars

\* C27: a ride that is searching without a driver, promoted just now or left
\* so by a matching run, gets a further matching attempt without a new
\* request of a client: while a driver stays online and available, the ride
\* is eventually driver_assigned.
C27_SearchingIsMatchedAgain ==
  \A r \in RideIds :
    (rides[r].status = "searching" /\ rides[r].driver_id = Null
       /\ CandidateLocator(drivers) # {})
    ~> (rides[r].status = "driver_assigned" \/ CandidateLocator(drivers) = {})

====
